---- MODULE Spec2Model ----
(***************************************************************************)
(* Controller input pipeline of the controller_support mod: the           *)
(* DirectionRepeater timer state machine, the spell/item browse overlay,  *)
(* the walk-target overlay and the per-frame injection pipeline.          *)
(*                                                                         *)
(* Time is counted in hundredths of a second (0.07 s = 7 ticks), the      *)
(* resolution of every timing constant in config.py.                      *)
(*                                                                         *)
(* The clock.  time.time() has an arbitrary origin and the code only ever *)
(* tests differences of two readings against its timing constants (and    *)
(* a timestamp against 0, its "never" value).  The model reads the clock  *)
(* from a sliding origin: a call made dt ticks after the previous call    *)
(* reads Clock + dt, runs the code on that reading, and then every stored *)
(* timestamp is moved back by dt (Rebase), so that the latest call always *)
(* reads Clock.  A timestamp that has become older than any constant it   *)
(* is compared with stays at the oldest reading still told apart, and 0   *)
(* stays 0.  No test of the code can tell the difference.                 *)
(***************************************************************************)
EXTENDS Integers, Sequences, FiniteSets, TLC

\* ------------------------------------------------------------------------
\*  config.py
\* ------------------------------------------------------------------------
CURSOR_REPEAT_DELAY == 30
CURSOR_REPEAT_INTERVAL == 10
MOVE_REPEAT_DELAY == 22
MOVE_REPEAT_INTERVAL == 12
DEBOUNCE_TIME == 7
\* Axis readings are counted in hundredths of the axis range (1.0 = 100).
STICK_DEADZONE == 25
DIRECTION_THRESHOLD == 15
TRIGGER_THRESHOLD == 30
\* controller_state.py
RESCAN_INTERVAL == 200

\* XboxButtons
BTN_A == 0
BTN_B == 1
BTN_X == 2
BTN_Y == 3
BTN_LB == 4
BTN_RB == 5
BTN_BACK == 6
BTN_START == 7
BTN_L_STICK == 8
BTN_R_STICK == 9

\* ------------------------------------------------------------------------
\*  Bounds of the model
\* ------------------------------------------------------------------------
\* What time.time() reads at the latest call (see the header).
Clock == 300
\* Largest number of ticks between two successive calls.
MaxStep == 31
\* Emissions counted in one run of a held direction.
MaxRunN == 4

\* Python's None.
None == <<>>

Min(a, b) == IF a < b THEN a ELSE b
Max(a, b) == IF a > b THEN a ELSE b

\* ------------------------------------------------------------------------
\*  repeater.py -- DirectionRepeater
\* ------------------------------------------------------------------------
DirectionRepeater(initial_delay, repeat_interval) ==
    [ initial_delay   |-> initial_delay,
      repeat_interval |-> repeat_interval,
      active_dir      |-> None,
      next_fire_time  |-> 0,
      fired_initial   |-> FALSE,
      last_fire_time  |-> 0,
      release_time    |-> 0 ]

\* `direction is None or direction == (0, 0)`
IsNeutral(direction) == direction = None \/ direction = <<0, 0>>

\* The neutral branch: record the release of a held direction, go idle.
Release(self, t) ==
    [ self EXCEPT !.release_time = IF self.active_dir # None THEN t ELSE @,
                  !.active_dir = None,
                  !.fired_initial = FALSE ]

\* The repeater without its debounce guard.
TooSoon_Never(self, t) == FALSE

\* `now - self.last_fire_time < DEBOUNCE_TIME`
TooSoon(self, t) == t - self.last_fire_time < DEBOUNCE_TIME

\* The repeater without its bounce suppression.
BounceBack_Never(self, t) == FALSE

\* `self.release_time > 0 and (now - self.release_time) < DEBOUNCE_TIME`
BounceBack(self, t) ==
    self.release_time > 0 /\ t - self.release_time < DEBOUNCE_TIME

\* The suppressed bounce: take the direction over, restart the initial delay.
SwitchSilently(self, direction, t) ==
    [ self EXCEPT !.active_dir = direction,
                  !.fired_initial = TRUE,
                  !.next_fire_time = t + self.initial_delay ]

\* FirePress scheduling the next fire after the repeat interval.
\* A first press that does not record when it fired.
FirePress_NoRecord(self, direction, t) ==
    [ self EXCEPT !.active_dir = direction,
                  !.fired_initial = TRUE,
                  !.next_fire_time = t + self.initial_delay ]

FirePress_NoDelay(self, direction, t) ==
    [ self EXCEPT !.active_dir = direction,
                  !.fired_initial = TRUE,
                  !.next_fire_time = t + self.repeat_interval,
                  !.last_fire_time = t ]

\* A genuine new direction.
FirePress(self, direction, t) ==
    [ self EXCEPT !.active_dir = direction,
                  !.fired_initial = TRUE,
                  !.next_fire_time = t + self.initial_delay,
                  !.last_fire_time = t ]

\* The repeat of a held direction.
FireRepeat(self, t) ==
    [ self EXCEPT !.next_fire_time = t + self.repeat_interval,
                  !.last_fire_time = t ]

\* update without the append of the new-direction branch.
\* update without the repeat branch.
update_NoRepeat(self, direction, t) ==
    IF IsNeutral(direction)
    THEN [ self |-> Release(self, t), events |-> <<>> ]
    ELSE IF TooSoon(self, t)
    THEN [ self |-> self, events |-> <<>> ]
    ELSE IF direction # self.active_dir
    THEN IF BounceBack(self, t)
         THEN [ self |-> SwitchSilently(self, direction, t), events |-> <<>> ]
         ELSE [ self |-> FirePress(self, direction, t), events |-> <<direction>> ]
    ELSE [ self |-> self, events |-> <<>> ]

update_ForgetAppend(self, direction, t) ==
    IF IsNeutral(direction)
    THEN [ self |-> Release(self, t), events |-> <<>> ]
    ELSE IF TooSoon(self, t)
    THEN [ self |-> self, events |-> <<>> ]
    ELSE IF direction # self.active_dir
    THEN IF BounceBack(self, t)
         THEN [ self |-> SwitchSilently(self, direction, t), events |-> <<>> ]
         ELSE [ self |-> FirePress(self, direction, t), events |-> <<>> ]
    ELSE IF t >= self.next_fire_time
    THEN [ self |-> FireRepeat(self, t), events |-> <<direction>> ]
    ELSE [ self |-> self, events |-> <<>> ]

\* DirectionRepeater.update at time t: the repeater afterwards and the list returned.
update(self, direction, t) ==
    IF IsNeutral(direction)
    THEN [ self |-> Release(self, t), events |-> <<>> ]
    ELSE IF TooSoon(self, t)
    THEN [ self |-> self, events |-> <<>> ]
    ELSE IF direction # self.active_dir
    THEN IF BounceBack(self, t)
         THEN [ self |-> SwitchSilently(self, direction, t), events |-> <<>> ]
         ELSE [ self |-> FirePress(self, direction, t), events |-> <<direction>> ]
    ELSE IF t >= self.next_fire_time
    THEN [ self |-> FireRepeat(self, t), events |-> <<direction>> ]
    ELSE [ self |-> self, events |-> <<>> ]

\* ------------------------------------------------------------------------
\*  controller_state.py -- ControllerState
\* ------------------------------------------------------------------------
Abs(x) == IF x < 0 THEN -x ELSE x

\* ControllerState.__init__
ControllerState ==
    [ joystick |-> None,
      connected |-> FALSE,
      axis_left_x |-> 0,
      axis_left_y |-> 1,
      axis_right_x |-> -1,
      axis_right_y |-> -1,
      axis_lt |-> -1,
      axis_rt |-> -1,
      trigger_is_minus_one_rest |-> TRUE,
      last_poll_frame |-> -1,
      prev_buttons |-> {},
      curr_buttons |-> {},
      prev_lt |-> FALSE,
      prev_rt |-> FALSE,
      curr_lt |-> FALSE,
      curr_rt |-> FALSE,
      prev_hat |-> <<0, 0>>,
      curr_hat |-> <<0, 0>>,
      prev_left_dir |-> <<0, 0>>,
      curr_left_dir |-> <<0, 0>>,
      prev_right_dir |-> <<0, 0>>,
      curr_right_dir |-> <<0, 0>>,
      last_scan_time |-> 0 ]

\* The indices i (0-based) of the axes whose rest value satisfies P, in index order.
RECURSIVE AxesWhere(_, _, _)
AxesWhere(rest, i, trigger) ==
    IF i > Len(rest) THEN <<>>
    ELSE LET val == rest[i]
             hit == IF trigger THEN val < -80
                    ELSE ~(val < -80) /\ Abs(val) < 50
         IN  (IF hit THEN << i - 1 >> ELSE <<>>) \o AxesWhere(rest, i + 1, trigger)

\* A mapping that takes the axes by position, as an Xbox pad has them.
auto_detect_axes_ByPosition(self, rest) ==
    [ self EXCEPT !.axis_left_x = 0, !.axis_left_y = 1,
                  !.axis_right_x = 2, !.axis_right_y = 3,
                  !.axis_lt = 4, !.axis_rt = 5,
                  !.trigger_is_minus_one_rest = TRUE ]

\* ControllerState._auto_detect_axes, rest being the axes' values at connect time.
auto_detect_axes(self, rest) ==
    LET stick_axes == AxesWhere(rest, 1, FALSE)
        trigger_axes == AxesWhere(rest, 1, TRUE)
        s1 == IF Len(stick_axes) >= 2
              THEN [ self EXCEPT !.axis_left_x = stick_axes[1],
                                 !.axis_left_y = stick_axes[2] ]
              ELSE self
        s2 == IF Len(stick_axes) >= 4
              THEN [ s1 EXCEPT !.axis_right_x = stick_axes[3],
                               !.axis_right_y = stick_axes[4] ]
              ELSE IF Len(stick_axes) = 3
              THEN [ s1 EXCEPT !.axis_right_x = stick_axes[3] ]
              ELSE s1
        s3 == IF Len(trigger_axes) >= 1
              THEN [ s2 EXCEPT !.axis_lt = trigger_axes[1],
                               !.trigger_is_minus_one_rest = TRUE ]
              ELSE s2
        s4 == IF Len(trigger_axes) >= 2
              THEN [ s3 EXCEPT !.axis_rt = trigger_axes[2] ]
              ELSE s3
    IN  IF trigger_axes = <<>>
        THEN [ s4 EXCEPT !.trigger_is_minus_one_rest = FALSE ]
        ELSE s4

\* The Joystick handle of a device whose axes rest at `rest`; the handle stays
\* on the device it was opened on.
Joystick(rest) ==
    [ numaxes |-> Len(rest), numbuttons |-> 10, numhats |-> 1, rest |-> rest ]

\* ControllerState.try_init at time t, the joystick subsystem reporting `count`
\* devices, the first with axes resting at `rest`.
\* try_init waiting for more than the rescan interval.
try_init_LateRescan(self, t, count, rest) ==
    IF self.connected /\ self.joystick # None THEN self
    ELSE IF t - self.last_scan_time <= RESCAN_INTERVAL THEN self
    ELSE LET scanned == [ self EXCEPT !.last_scan_time = t ]
         IN  IF count = 0
             THEN [ scanned EXCEPT !.connected = FALSE ]
             ELSE auto_detect_axes(
                      [ scanned EXCEPT !.joystick = Joystick(rest),
                                       !.connected = TRUE ], rest)

\* try_init enumerating the devices whenever it is called while disconnected.
try_init_NoThrottle(self, t, count, rest) ==
    IF self.connected /\ self.joystick # None THEN self
    ELSE LET scanned == [ self EXCEPT !.last_scan_time = t ]
         IN  IF count = 0
             THEN [ scanned EXCEPT !.connected = FALSE ]
             ELSE auto_detect_axes(
                      [ scanned EXCEPT !.joystick = Joystick(rest),
                                       !.connected = TRUE ], rest)

try_init(self, t, count, rest) ==
    IF self.connected /\ self.joystick # None THEN self
    ELSE IF t - self.last_scan_time < RESCAN_INTERVAL THEN self
    ELSE LET scanned == [ self EXCEPT !.last_scan_time = t ]
         IN  IF count = 0
             THEN [ scanned EXCEPT !.connected = FALSE ]
             ELSE auto_detect_axes(
                      [ scanned EXCEPT !.joystick = Joystick(rest),
                                       !.connected = TRUE ], rest)

\* ControllerState._handle_disconnect
handle_disconnect(self) == [ self EXCEPT !.connected = FALSE, !.joystick = None ]

\* joystick.get_axis(i) of the pad reading `in`.
GetAxis(in, i) == in.axes[i + 1]

\* ControllerState._read_trigger
read_trigger(self, in, axis_idx, num_axes) ==
    IF axis_idx < 0 \/ num_axes <= axis_idx THEN FALSE
    ELSE LET raw == GetAxis(in, axis_idx)
         IN  IF self.trigger_is_minus_one_rest
             THEN raw + 100 > 2 * TRIGGER_THRESHOLD
             ELSE raw > TRIGGER_THRESHOLD

\* Digitization with a square dead zone: each axis on its own.
stick_to_digital_SquareDeadzone(x, y) ==
    IF x < STICK_DEADZONE /\ -x < STICK_DEADZONE
       /\ y < STICK_DEADZONE /\ -y < STICK_DEADZONE
    THEN <<0, 0>>
    ELSE << IF x > DIRECTION_THRESHOLD THEN 1
            ELSE IF x < -DIRECTION_THRESHOLD THEN -1 ELSE 0,
            IF y > DIRECTION_THRESHOLD THEN 1
            ELSE IF y < -DIRECTION_THRESHOLD THEN -1 ELSE 0 >>

\* Digitization whose axes count from the dead zone's radius on.
stick_to_digital_HighThreshold(x, y) ==
    IF x * x + y * y < STICK_DEADZONE * STICK_DEADZONE THEN <<0, 0>>
    ELSE << IF x > STICK_DEADZONE THEN 1
            ELSE IF x < -STICK_DEADZONE THEN -1 ELSE 0,
            IF y > STICK_DEADZONE THEN 1
            ELSE IF y < -STICK_DEADZONE THEN -1 ELSE 0 >>

\* ControllerState._stick_to_digital
stick_to_digital(x, y) ==
    IF x * x + y * y < STICK_DEADZONE * STICK_DEADZONE THEN <<0, 0>>
    ELSE << IF x > DIRECTION_THRESHOLD THEN 1
            ELSE IF x < -DIRECTION_THRESHOLD THEN -1 ELSE 0,
            IF y > DIRECTION_THRESHOLD THEN 1
            ELSE IF y < -DIRECTION_THRESHOLD THEN -1 ELSE 0 >>

\* ControllerState._read_stick
read_stick(self, in, axis_x, axis_y, num_axes) ==
    IF axis_x < 0 \/ axis_y < 0 THEN <<0, 0>>
    ELSE IF num_axes <= Max(axis_x, axis_y) THEN <<0, 0>>
    ELSE stick_to_digital(GetAxis(in, axis_x), GetAxis(in, axis_y))

\* The snapshot part of poll: shift current to previous, read the pad.
poll_read(self, in) ==
    LET num_axes == self.joystick.numaxes
    IN  [ self EXCEPT
            !.prev_buttons = self.curr_buttons,
            !.curr_buttons = { b \in in.buttons : b < self.joystick.numbuttons },
            !.prev_lt = self.curr_lt,
            !.prev_rt = self.curr_rt,
            !.curr_lt = read_trigger(self, in, self.axis_lt, num_axes),
            !.curr_rt = read_trigger(self, in, self.axis_rt, num_axes),
            !.prev_hat = self.curr_hat,
            !.curr_hat = IF self.joystick.numhats > 0 THEN in.hat ELSE <<0, 0>>,
            !.prev_left_dir = self.curr_left_dir,
            !.prev_right_dir = self.curr_right_dir,
            !.curr_left_dir = read_stick(self, in, self.axis_left_x,
                                         self.axis_left_y, num_axes),
            !.curr_right_dir = read_stick(self, in, self.axis_right_x,
                                          self.axis_right_y, num_axes) ]

\* poll without the test of lines 170-172.
poll_NoDedupe(self, frameno, in) ==
    IF ~self.connected \/ self.joystick = None
    THEN [ self |-> self, raised |-> FALSE ]
    ELSE LET marked == [ self EXCEPT !.last_poll_frame = frameno ]
         IN  IF in.count = 0
             THEN [ self |-> handle_disconnect(marked), raised |-> FALSE ]
             ELSE IF in.err
             THEN [ self |-> marked, raised |-> TRUE ]
             ELSE [ self |-> poll_read(marked, in), raised |-> FALSE ]

\* ControllerState.poll(frameno) on the pad reading `in`: [self, raised], raised
\* telling that a device read threw (in.err) after the device count was taken.
poll(self, frameno, in) ==
    IF ~self.connected \/ self.joystick = None
    THEN [ self |-> self, raised |-> FALSE ]
    ELSE IF self.last_poll_frame = frameno
    THEN [ self |-> self, raised |-> FALSE ]
    ELSE LET marked == [ self EXCEPT !.last_poll_frame = frameno ]
         IN  IF in.count = 0
             THEN [ self |-> handle_disconnect(marked), raised |-> FALSE ]
             ELSE IF in.err
             THEN [ self |-> marked, raised |-> TRUE ]
             ELSE [ self |-> poll_read(marked, in), raised |-> FALSE ]

button_just_pressed(self, btn) ==
    btn \in self.curr_buttons /\ btn \notin self.prev_buttons

button_held(self, btn) == btn \in self.curr_buttons

button_just_released(self, btn) ==
    btn \notin self.curr_buttons /\ btn \in self.prev_buttons

lt_just_pressed(self) == self.curr_lt /\ ~self.prev_lt

rt_just_pressed(self) == self.curr_rt /\ ~self.prev_rt

\* SDL hat: up = +1; screen coordinates: up = -1.
get_dpad_direction(self) == << self.curr_hat[1], -self.curr_hat[2] >>

\* The left stick first, the d-pad when the stick is neutral.
get_combined_direction_StickWins(self) ==
    IF self.curr_left_dir # <<0, 0>> THEN self.curr_left_dir
    ELSE get_dpad_direction(self)

get_combined_direction(self) ==
    LET dpad == get_dpad_direction(self)
    IN  IF dpad # <<0, 0>> THEN dpad ELSE self.curr_left_dir

\* ------------------------------------------------------------------------
\*  The host (PyGameView and the game it shows), as this mod uses it
\* ------------------------------------------------------------------------
\* The level: a map of 3 x 2 tiles with a wall in the lower row, on which each
\* of the 8 directions leads from some tile the player can stand on to a tile
\* of the map.
MapCells == (0 .. 2) \X (0 .. 1)
Walls == { <<1, 1>> }

Point(x, y) == << x, y >>

\* level.is_point_in_bounds
is_point_in_bounds(p) == p \in MapCells

\* level.can_move(unit, x, y) without teleport: an adjacent tile in bounds that
\* can be walked on.
can_move(unit, x, y) ==
    /\ is_point_in_bounds(Point(x, y))
    /\ Abs(x - unit.x) <= 1
    /\ Abs(y - unit.y) <= 1
    /\ Point(x, y) \notin Walls

\* The entries of the host's lists: p1.spells holds spells, p1.items holds items
\* that wrap a spell.
Spell(k) == [ kind |-> "spell", id |-> k ]
ItemSpell(k) == [ kind |-> "itemspell", id |-> k ]
Item(k) == [ kind |-> "item", id |-> k, spell |-> ItemSpell(k) ]

\* KEYDOWN events
Key(name) == [ code |-> name ]
make_key_event(key) == [ type |-> "KEYDOWN", key |-> key ]

\* A set of tiles, as view.targetable_tiles holds it.
Tiles(S) == [ tiles |-> S ]

\* An entry of `calls`: what was called, with the preview and overlay state the
\* call found.
Call(w, op, arg) ==
    [ w EXCEPT !.calls = Append(@, [ op |-> op, arg |-> arg,
                                     cur_spell |-> w.view.cur_spell,
                                     cur_spell_target |-> w.view.cur_spell_target,
                                     targetable_tiles |-> w.view.targetable_tiles,
                                     active |-> w.active ]) ]

\* view.choose_spell(spell): the host previews the spell, aimed at the player.
choose_spell(w, spell) ==
    LET c == Call(w, "choose_spell", spell)
    IN  [ c EXCEPT !.view.cur_spell = spell,
                   !.view.cur_spell_target = Point(w.p1.x, w.p1.y),
                   !.view.targetable_tiles = Tiles(MapCells) ]

\* view.abort_cur_spell(): the host drops its preview.
abort_cur_spell(w) ==
    LET c == Call(w, "abort_cur_spell", None)
    IN  [ c EXCEPT !.view.cur_spell = None,
                   !.view.cur_spell_target = None,
                   !.view.targetable_tiles = None ]

\* view.try_move(Point(dx, dy)): the host moves the player if the level allows it.
try_move(w, d) ==
    LET c == Call(w, "try_move", d)
    IN  IF can_move(w.p1, w.p1.x + d[1], w.p1.y + d[2])
        THEN [ c EXCEPT !.p1.x = @ + d[1], !.p1.y = @ + d[2] ]
        ELSE c

\* view.try_examine_tile(point)
try_examine_tile(w, p) == Call(w, "try_examine_tile", p)

\* view.play_sound(name)
play_sound(w, name) == Call(w, "play_sound", [ sound |-> name ])

\* ------------------------------------------------------------------------
\*  helpers.py
\* ------------------------------------------------------------------------
\* direction_to_key_bind: every non-neutral direction has a bind.
direction_to_key_bind(d) ==
    IF d = <<0, -1>> THEN "UP"
    ELSE IF d = <<0, 1>> THEN "DOWN"
    ELSE IF d = <<-1, 0>> THEN "LEFT"
    ELSE IF d = <<1, 0>> THEN "RIGHT"
    ELSE IF d = <<1, -1>> THEN "UP_RIGHT"
    ELSE IF d = <<-1, -1>> THEN "UP_LEFT"
    ELSE IF d = <<1, 1>> THEN "DOWN_RIGHT"
    ELSE IF d = <<-1, 1>> THEN "DOWN_LEFT"
    ELSE "NONE"

get_key_for_bind_Second(view, bind) ==
    LET keys == IF bind \in DOMAIN view.key_binds
                THEN view.key_binds[bind] ELSE << None, None >>
    IN  keys[2]

\* get_key_for_bind: the first bound key of a bind, or None.
get_key_for_bind(view, bind) ==
    LET keys == IF bind \in DOMAIN view.key_binds
                THEN view.key_binds[bind] ELSE << None, None >>
    IN  IF keys[1] # None THEN keys[1]
        ELSE IF keys[2] # None THEN keys[2]
        ELSE None

\* ------------------------------------------------------------------------
\*  browse.py
\* ------------------------------------------------------------------------
\* _browse_mode is "none" for Python's None.
get_browse_list(w) ==
    IF ~w.view.game THEN <<>>
    ELSE IF w.browse_mode = "spells" THEN w.p1.spells
    ELSE IF w.browse_mode = "items" THEN w.p1.items
    ELSE <<>>

\* The clamp of _browse_select_current.
ClampIndex(i, n) == Max(0, Min(i, n - 1))

browse_select_current(w) ==
    LET lst == get_browse_list(w)
    IN  IF lst = <<>> THEN w
        ELSE LET i == ClampIndex(w.browse_index, Len(lst))
                 entry == lst[i + 1]
                 c == [ w EXCEPT !.browse_index = i ]
             IN  IF w.browse_mode = "items"
                 THEN choose_spell(c, entry.spell)
                 ELSE choose_spell(c, entry)

is_browsing(w) == w.browse_mode # "none"

browse_open_Unchecked(w, mode) ==
    LET n == Call(w, "browse_open", [ mode |-> mode ])
    IN  browse_select_current(
            [ n EXCEPT !.browse_mode = mode, !.browse_index = 0 ])

\* `calls` notes the operation before the host calls it makes.
browse_open(w, mode) ==
    LET lst == IF mode = "spells" THEN w.p1.spells ELSE w.p1.items
        n == Call(w, "browse_open", [ mode |-> mode ])
    IN  IF ~w.view.game THEN n
        ELSE IF lst = <<>>
        THEN play_sound(n, "menu_abort")
        ELSE browse_select_current(
                 [ n EXCEPT !.browse_mode = mode, !.browse_index = 0 ])

\* Python's %, whose result takes the sign of a positive divisor's.
CycleIndex_NoWrap(i, delta, n) == i + delta

CycleIndex(i, delta, n) == (i + delta) % n

browse_cycle_Raw(w, delta) ==
    [ Call(w, "browse_cycle", [ delta |-> delta, index |-> w.browse_index,
                                length |-> Len(get_browse_list(w)) ])
        EXCEPT !.browse_index = @ + delta ]

browse_cycle(w, delta) ==
    LET lst == get_browse_list(w)
        n == Call(w, "browse_cycle", [ delta |-> delta, index |-> w.browse_index,
                                       length |-> Len(lst) ])
    IN  IF lst = <<>> THEN n
        ELSE browse_select_current(
                 [ n EXCEPT !.browse_index = CycleIndex(@, delta, Len(lst)) ])

browse_confirm_NoEvent(w) ==
    [ Call(w, "browse_confirm", [ events |-> Len(w.view.events) ])
        EXCEPT !.browse_mode = "none" ]

browse_confirm(w) ==
    LET n == Call(w, "browse_confirm", [ events |-> Len(w.view.events) ])
        closed == [ n EXCEPT !.browse_mode = "none" ]
        key == get_key_for_bind(w.view, "CONFIRM")
    IN  IF key # None
        THEN [ closed EXCEPT !.view.events = Append(@, make_key_event(key)) ]
        ELSE closed

browse_cancel(w) ==
    LET closed == [ w EXCEPT !.browse_mode = "none" ]
    IN  IF w.view.cur_spell # None THEN abort_cur_spell(closed) ELSE closed

clear_browse(w) == [ w EXCEPT !.browse_mode = "none" ]

\* ------------------------------------------------------------------------
\*  walk_target.py
\* ------------------------------------------------------------------------
\* The StepSpell object made by walk_target_enter (its caster is the player).
StepSpell == [ kind |-> "StepSpell", name |-> "Step" ]

is_walk_target_active(w) == w.active

\* StepSpell.can_cast
StepSpell_can_cast(w, x, y) == can_move(w.p1, x, y)

\* StepSpell.get_targetable_tiles
StepSpell_get_targetable_tiles(w) ==
    { Point(w.p1.x + dx, w.p1.y + dy) : dx \in {-1, 0, 1}, dy \in {-1, 0, 1} }
      \cap { p \in MapCells : p # Point(w.p1.x, w.p1.y)
                              /\ StepSpell_can_cast(w, p[1], p[2]) }

walk_target_enter(w) ==
    [ w EXCEPT !.step_spell = StepSpell,
               !.view.cur_spell = StepSpell,
               !.view.cur_spell_target = Point(w.p1.x, w.p1.y),
               !.view.targetable_tiles = Tiles(StepSpell_get_targetable_tiles(w)),
               !.view.tab_targets = <<>>,
               !.active = TRUE ]

\* _force_cleanup
force_cleanup(w) == [ w EXCEPT !.step_spell = None, !.active = FALSE ]

\* What walk_target_update finds: the direction the pad gives and the actor.
UpdateNote(w) ==
    [ direction |-> get_combined_direction(w.ctrl),
      actor |-> Point(w.p1.x, w.p1.y) ]

\* An update aiming two cells away from the player.
walk_target_update_DoubleStep(w) ==
    LET n == Call(w, "walk_target_update", UpdateNote(w))
    IN  IF ~n.active \/ n.step_spell = None THEN n
        ELSE IF n.view.cur_spell # n.step_spell THEN force_cleanup(n)
        ELSE LET direction == get_combined_direction(n.ctrl)
                 target == Point(n.p1.x + 2 * direction[1],
                                 n.p1.y + 2 * direction[2])
             IN  IF direction = <<0, 0>> THEN n
                 ELSE IF is_point_in_bounds(target)
                 THEN try_examine_tile(
                          [ n EXCEPT !.view.cur_spell_target = target ], target)
                 ELSE n

walk_target_update_Accumulate(w) ==
    LET n == Call(w, "walk_target_update", UpdateNote(w))
    IN  IF ~n.active \/ n.step_spell = None THEN n
        ELSE IF n.view.cur_spell # n.step_spell THEN force_cleanup(n)
        ELSE LET direction == get_combined_direction(n.ctrl)
                 target == Point(n.view.cur_spell_target[1] + direction[1],
                                 n.view.cur_spell_target[2] + direction[2])
             IN  IF direction = <<0, 0>> THEN n
                 ELSE IF is_point_in_bounds(target)
                 THEN try_examine_tile(
                          [ n EXCEPT !.view.cur_spell_target = target ], target)
                 ELSE n

walk_target_update(w) ==
    LET n == Call(w, "walk_target_update", UpdateNote(w))
    IN  IF ~n.active \/ n.step_spell = None THEN n
        ELSE IF n.view.cur_spell # n.step_spell THEN force_cleanup(n)
        ELSE LET direction == get_combined_direction(n.ctrl)
                 target == Point(n.p1.x + direction[1], n.p1.y + direction[2])
             IN  IF direction = <<0, 0>> THEN n
                 ELSE IF is_point_in_bounds(target)
                 THEN try_examine_tile(
                          [ n EXCEPT !.view.cur_spell_target = target ], target)
                 ELSE n

\* The reset both branches of walk_target_exit perform.
ClearWalkTarget(w) ==
    [ w EXCEPT !.view.cur_spell = None,
               !.view.cur_spell_target = None,
               !.view.targetable_tiles = None,
               !.step_spell = None,
               !.active = FALSE ]

\* The offset walk_target_exit walks by.
WalkOffset_Swapped(w) ==
    << w.view.cur_spell_target[2] - w.p1.y, w.view.cur_spell_target[1] - w.p1.x >>

WalkOffset(w) ==
    << w.view.cur_spell_target[1] - w.p1.x, w.view.cur_spell_target[2] - w.p1.y >>

\* What walk_target_exit finds: the aim, the actor and the verdict of the
\* legality check on the aim.
ExitNote(w, do_walk) ==
    [ do_walk |-> do_walk,
      aim |-> w.view.cur_spell_target,
      actor |-> Point(w.p1.x, w.p1.y),
      legal |-> IF w.view.cur_spell_target = None THEN FALSE
                ELSE StepSpell_can_cast(w, w.view.cur_spell_target[1],
                                        w.view.cur_spell_target[2]) ]

walk_target_exit_MoveFirst(w, do_walk) ==
    LET n == Call(w, "walk_target_exit", ExitNote(w, do_walk))
    IN  IF do_walk /\ n.step_spell # None /\ n.view.cur_spell_target # None
        THEN LET d == WalkOffset(n)
                 can_walk == d # <<0, 0>>
                             /\ StepSpell_can_cast(n, n.view.cur_spell_target[1],
                                                   n.view.cur_spell_target[2])
             IN  IF can_walk THEN ClearWalkTarget(try_move(n, d))
                 ELSE IF d # <<0, 0>>
                 THEN play_sound(ClearWalkTarget(n), "menu_abort")
                 ELSE ClearWalkTarget(n)
        ELSE IF do_walk THEN play_sound(ClearWalkTarget(n), "menu_abort")
        ELSE ClearWalkTarget(n)

walk_target_exit_CueOnNoAim(w, do_walk) ==
    LET n == Call(w, "walk_target_exit", ExitNote(w, do_walk))
    IN  IF do_walk /\ n.step_spell # None /\ n.view.cur_spell_target # None
        THEN LET d == WalkOffset(n)
                 can_walk == d # <<0, 0>>
                             /\ StepSpell_can_cast(n, n.view.cur_spell_target[1],
                                                   n.view.cur_spell_target[2])
                 cleared == ClearWalkTarget(n)
             IN  IF can_walk THEN try_move(cleared, d)
                 ELSE IF d # <<0, 0>> THEN play_sound(cleared, "menu_abort")
                 ELSE play_sound(cleared, "menu_abort")
        ELSE IF do_walk THEN play_sound(ClearWalkTarget(n), "menu_abort")
        ELSE ClearWalkTarget(n)

walk_target_exit_QuietIllegal(w, do_walk) ==
    LET n == Call(w, "walk_target_exit", ExitNote(w, do_walk))
    IN  IF do_walk /\ n.step_spell # None /\ n.view.cur_spell_target # None
        THEN LET d == WalkOffset(n)
                 can_walk == d # <<0, 0>>
                             /\ StepSpell_can_cast(n, n.view.cur_spell_target[1],
                                                   n.view.cur_spell_target[2])
                 cleared == ClearWalkTarget(n)
             IN  IF can_walk THEN try_move(cleared, d)
                 ELSE IF d # <<0, 0>> THEN cleared
                 ELSE cleared
        ELSE IF do_walk THEN play_sound(ClearWalkTarget(n), "menu_abort")
        ELSE ClearWalkTarget(n)

walk_target_exit_CancelCue(w, do_walk) ==
    LET n == Call(w, "walk_target_exit", ExitNote(w, do_walk))
    IN  IF do_walk /\ n.step_spell # None /\ n.view.cur_spell_target # None
        THEN LET d == WalkOffset(n)
                 can_walk == d # <<0, 0>>
                             /\ StepSpell_can_cast(n, n.view.cur_spell_target[1],
                                                   n.view.cur_spell_target[2])
                 cleared == ClearWalkTarget(n)
             IN  IF can_walk THEN try_move(cleared, d)
                 ELSE IF d # <<0, 0>> THEN play_sound(cleared, "menu_abort")
                 ELSE cleared
        ELSE IF do_walk THEN play_sound(ClearWalkTarget(n), "menu_abort")
        ELSE play_sound(ClearWalkTarget(n), "menu_abort")

walk_target_exit(w, do_walk) ==
    LET n == Call(w, "walk_target_exit", ExitNote(w, do_walk))
    IN  IF do_walk /\ n.step_spell # None /\ n.view.cur_spell_target # None
        THEN LET d == WalkOffset(n)
                 can_walk == d # <<0, 0>>
                             /\ StepSpell_can_cast(n, n.view.cur_spell_target[1],
                                                   n.view.cur_spell_target[2])
                 cleared == ClearWalkTarget(n)
             IN  IF can_walk THEN try_move(cleared, d)
                 ELSE IF d # <<0, 0>> THEN play_sound(cleared, "menu_abort")
                 ELSE cleared
        ELSE IF do_walk THEN play_sound(ClearWalkTarget(n), "menu_abort")
        ELSE ClearWalkTarget(n)

\* ------------------------------------------------------------------------
\*  injection.py
\* ------------------------------------------------------------------------
\* The events one press adds to `injected`: the key of `bind`, if one is bound.
KeyEvent(w, bind) ==
    LET key == get_key_for_bind(w.view, bind)
    IN  IF key # None THEN << make_key_event(key) >> ELSE <<>>

\* `hasattr(view, 'cur_spell') and view.cur_spell`
HasSpell(w) == w.view.cur_spell # None

\* `hasattr(view, 'deploy_target') and view.deploy_target`
HasDeploy(w) == w.view.deploy_target # None

\* `state == STATE_LEVEL and view.game`
InLevel(w) == w.view.state = "LEVEL" /\ w.view.game

\* The pass clearing the session only when the host left the level screen.
ConsistencyPass_LevelOnly(w) ==
    LET b == IF is_browsing(w) /\ w.view.state # "LEVEL"
             THEN clear_browse(w) ELSE w
    IN  IF is_walk_target_active(b) /\ b.view.state # "LEVEL"
        THEN walk_target_exit(b, FALSE) ELSE b

\* Lines 99-109: the browse session and the overlay end when the host left them.
ConsistencyPass(w) ==
    LET b == IF is_browsing(w) /\ (w.view.state # "LEVEL" \/ ~HasSpell(w))
             THEN clear_browse(w) ELSE w
    IN  IF is_walk_target_active(b) /\ b.view.state # "LEVEL"
        THEN walk_target_exit(b, FALSE) ELSE b

\* The overlay staying up when A is let go.
WalkTargetMode_KeepOnRelease(w) ==
    IF button_just_pressed(w.ctrl, BTN_B) THEN walk_target_exit(w, FALSE)
    ELSE walk_target_update(w)

WalkTargetMode_CancelFirst(w) ==
    IF button_just_pressed(w.ctrl, BTN_B) THEN walk_target_exit(w, FALSE)
    ELSE IF ~button_held(w.ctrl, BTN_A) THEN walk_target_exit(w, TRUE)
    ELSE walk_target_update(w)

\* Lines 112-125.
WalkTargetMode(w) ==
    IF ~button_held(w.ctrl, BTN_A) THEN walk_target_exit(w, TRUE)
    ELSE IF button_just_pressed(w.ctrl, BTN_B) THEN walk_target_exit(w, FALSE)
    ELSE walk_target_update(w)

\* The cursor loop moving the spell target without looking at the map.
MoveSpellTarget_Unclamped(w, d) ==
    LET new == Point(w.view.cur_spell_target[1] + d[1],
                     w.view.cur_spell_target[2] + d[2])
    IN  try_examine_tile([ w EXCEPT !.view.cur_spell_target = new ], new)

\* The body of the cursor loops of lines 155-163 and 284-290 for an emission d.
MoveSpellTarget(w, d) ==
    LET new == Point(w.view.cur_spell_target[1] + d[1],
                     w.view.cur_spell_target[2] + d[2])
    IN  IF is_point_in_bounds(new)
        THEN try_examine_tile([ w EXCEPT !.view.cur_spell_target = new ], new)
        ELSE w

\* Lines 147-152: an update of a repeater returns at most one emission.
BrowseCycleStep(w) ==
    LET r == update(w.browse_repeater, get_combined_direction(w.ctrl), Clock)
        u == [ w EXCEPT !.browse_repeater = r.self ]
    IN  IF r.events = <<>> THEN u
        ELSE IF r.events[1][2] < 0 THEN browse_cycle(u, -1)
        ELSE IF r.events[1][2] > 0 THEN browse_cycle(u, 1)
        ELSE u

\* Lines 155-163.
BrowseCursorStep(w) ==
    LET r == update(w.right_repeater, w.ctrl.curr_right_dir, Clock)
        u == [ w EXCEPT !.right_repeater = r.self ]
    IN  IF r.events = <<>> THEN u
        ELSE IF HasSpell(u) /\ u.view.cur_spell_target # None
        THEN MoveSpellTarget(u, r.events[1])
        ELSE u

\* Lines 128-164.
BrowseMode(w) ==
    IF button_just_pressed(w.ctrl, BTN_A) THEN browse_confirm(w)
    ELSE IF button_just_pressed(w.ctrl, BTN_B) THEN browse_cancel(w)
    ELSE IF button_just_pressed(w.ctrl, BTN_RB) /\ w.browse_mode = "spells"
    THEN browse_cancel(w)
    ELSE IF button_just_pressed(w.ctrl, BTN_LB) /\ w.browse_mode = "items"
    THEN browse_cancel(w)
    ELSE BrowseCursorStep(BrowseCycleStep(w))

\* The face buttons without the confirm button.
FaceButtons_NoConfirm(w) ==
    (IF button_just_pressed(w.ctrl, BTN_B) THEN KeyEvent(w, "ABORT") ELSE <<>>)
    \o (IF button_just_pressed(w.ctrl, BTN_X) THEN KeyEvent(w, "PASS") ELSE <<>>)
    \o (IF button_just_pressed(w.ctrl, BTN_Y) THEN KeyEvent(w, "CHAR") ELSE <<>>)
    \o (IF button_just_pressed(w.ctrl, BTN_START) THEN KeyEvent(w, "ABORT") ELSE <<>>)
    \o (IF button_just_pressed(w.ctrl, BTN_BACK) THEN KeyEvent(w, "HELP") ELSE <<>>)

\* Lines 168-207: A, B, X, Y, START, BACK.
FaceButtons(w) ==
    (IF button_just_pressed(w.ctrl, BTN_A) THEN KeyEvent(w, "CONFIRM") ELSE <<>>)
    \o (IF button_just_pressed(w.ctrl, BTN_B) THEN KeyEvent(w, "ABORT") ELSE <<>>)
    \o (IF button_just_pressed(w.ctrl, BTN_X) THEN KeyEvent(w, "PASS") ELSE <<>>)
    \o (IF button_just_pressed(w.ctrl, BTN_Y) THEN KeyEvent(w, "CHAR") ELSE <<>>)
    \o (IF button_just_pressed(w.ctrl, BTN_START) THEN KeyEvent(w, "ABORT") ELSE <<>>)
    \o (IF button_just_pressed(w.ctrl, BTN_BACK) THEN KeyEvent(w, "HELP") ELSE <<>>)

\* Lines 210-222, when RB does not open the spell browser.
RBEvents(w) ==
    IF ~button_just_pressed(w.ctrl, BTN_RB) THEN <<>>
    ELSE IF InLevel(w)
    THEN IF HasSpell(w) THEN KeyEvent(w, "TAB") ELSE <<>>
    ELSE KeyEvent(w, "NEXT_EXAMINE_TARGET")

\* Lines 225-238, when LB does not open the item browser.
LBEvents(w) ==
    IF ~button_just_pressed(w.ctrl, BTN_LB) THEN <<>>
    ELSE KeyEvent(w, "PREV_EXAMINE_TARGET")

\* Lines 241-266: stick clicks and triggers.
ClickAndTriggerEvents(w) ==
    (IF button_just_pressed(w.ctrl, BTN_L_STICK) /\ InLevel(w)
     THEN KeyEvent(w, "AUTOPICKUP") ELSE <<>>)
    \o (IF button_just_pressed(w.ctrl, BTN_R_STICK)
        THEN KeyEvent(w, "THREAT") ELSE <<>>)
    \o (IF rt_just_pressed(w.ctrl) /\ InLevel(w)
        THEN IF HasSpell(w) THEN KeyEvent(w, "CONFIRM")
             ELSE KeyEvent(w, "INTERACT")
        ELSE <<>>)
    \o (IF lt_just_pressed(w.ctrl) /\ InLevel(w)
        THEN KeyEvent(w, "REROLL") ELSE <<>>)

\* Lines 284-301 for an emission d of the right repeater.
MoveCursor(w, d) ==
    IF HasSpell(w) /\ w.view.cur_spell_target # None THEN MoveSpellTarget(w, d)
    ELSE IF HasDeploy(w)
    THEN LET new == Point(w.view.deploy_target[1] + d[1],
                          w.view.deploy_target[2] + d[2])
         IN  IF is_point_in_bounds(new)
             THEN try_examine_tile([ w EXCEPT !.view.deploy_target = new ], new)
             ELSE w
    ELSE LET target == Point(w.p1.x + d[1], w.p1.y + d[2])
         IN  IF is_point_in_bounds(target) THEN try_examine_tile(w, target)
             ELSE w

\* Lines 270-307: the repeaters, then `injected` joins the host's queue.
Directional(w, injected) ==
    LET l == update(w.left_repeater, get_combined_direction(w.ctrl), Clock)
        moves == IF l.events = <<>> THEN <<>>
                 ELSE KeyEvent(w, direction_to_key_bind(l.events[1]))
        r == update(w.right_repeater,
                    IF InLevel(w) THEN w.ctrl.curr_right_dir ELSE <<0, 0>>, Clock)
        u == [ w EXCEPT !.left_repeater = l.self, !.right_repeater = r.self ]
        c == IF InLevel(w) /\ r.events # <<>> THEN MoveCursor(u, r.events[1])
             ELSE u
    IN  [ c EXCEPT !.view.events = @ \o injected \o moves ]

\* Normal mode entering the overlay on A whatever the host previews.
NormalMode_EnterOverPreview(w) ==
    IF /\ button_just_pressed(w.ctrl, BTN_A)
       /\ InLevel(w)
       /\ w.can_execute_inputs
    THEN walk_target_enter(w)
    ELSE IF /\ button_just_pressed(w.ctrl, BTN_RB)
            /\ InLevel(w) /\ ~HasSpell(w) /\ ~HasDeploy(w)
    THEN browse_open(w, "spells")
    ELSE IF /\ button_just_pressed(w.ctrl, BTN_LB)
            /\ InLevel(w) /\ ~HasSpell(w) /\ ~HasDeploy(w)
    THEN browse_open(w, "items")
    ELSE Directional(w, FaceButtons(w) \o RBEvents(w) \o LBEvents(w)
                        \o ClickAndTriggerEvents(w))

\* Lines 168-307; a `return` ends the frame without the events gathered so far.
NormalMode(w) ==
    IF /\ button_just_pressed(w.ctrl, BTN_A)
       /\ InLevel(w)
       /\ ~HasSpell(w)
       /\ ~HasDeploy(w)
       /\ w.can_execute_inputs
    THEN walk_target_enter(w)
    ELSE IF /\ button_just_pressed(w.ctrl, BTN_RB)
            /\ InLevel(w) /\ ~HasSpell(w) /\ ~HasDeploy(w)
    THEN browse_open(w, "spells")
    ELSE IF /\ button_just_pressed(w.ctrl, BTN_LB)
            /\ InLevel(w) /\ ~HasSpell(w) /\ ~HasDeploy(w)
    THEN browse_open(w, "items")
    ELSE Directional(w, FaceButtons(w) \o RBEvents(w) \o LBEvents(w)
                        \o ClickAndTriggerEvents(w))

PolledFrame_SkipWalkTarget(w) ==
    LET c == ConsistencyPass(w)
    IN  IF is_browsing(c) /\ c.view.state = "LEVEL" THEN BrowseMode(c)
        ELSE NormalMode(c)

\* The frame going on to the buttons and sticks after the overlay's turn.
PolledFrame_WalkFallsThrough(w) ==
    LET c == ConsistencyPass(w)
    IN  IF is_walk_target_active(c) THEN NormalMode(WalkTargetMode(c))
        ELSE IF is_browsing(c) /\ c.view.state = "LEVEL" THEN BrowseMode(c)
        ELSE NormalMode(c)

\* The frame going on to the buttons and sticks after the browse session's turn.
PolledFrame_BrowseFallsThrough(w) ==
    LET c == ConsistencyPass(w)
    IN  IF is_walk_target_active(c) THEN WalkTargetMode(c)
        ELSE IF is_browsing(c) /\ c.view.state = "LEVEL"
        THEN NormalMode(BrowseMode(c))
        ELSE NormalMode(c)

\* Lines 96-307: the frame once the pad has been polled.
PolledFrame(w) ==
    LET c == ConsistencyPass(w)
    IN  IF is_walk_target_active(c) THEN WalkTargetMode(c)
        ELSE IF is_browsing(c) /\ c.view.state = "LEVEL" THEN BrowseMode(c)
        ELSE NormalMode(c)

\* Lines 84-94 without the guard of lines 77-82.
Prologue_NoDedupe(w, in) ==
    LET i == IF ~w.ctrl.connected
             THEN [ w EXCEPT !.ctrl = try_init(@, Clock, in.count, in.rest) ]
             ELSE w
    IN  IF ~i.ctrl.connected THEN [ w |-> i, go |-> FALSE ]
        ELSE LET p == poll(i.ctrl, i.view.frameno, in)
             IN  IF p.raised
                 THEN [ w |-> [ i EXCEPT !.ctrl = handle_disconnect(p.self) ],
                        go |-> FALSE ]
                 ELSE [ w |-> [ i EXCEPT !.ctrl = p.self ], go |-> TRUE ]

\* Lines 77-94, shared by the three entry points: the once-per-frame guard, the
\* connection attempt and the poll.  [w, go]: go tells that the frame goes on.
Prologue(w, in) ==
    IF w.view.ctrl_injected_frame = w.view.frameno
    THEN [ w |-> w, go |-> FALSE ]
    ELSE LET f == [ w EXCEPT !.view.ctrl_injected_frame = w.view.frameno ]
             i == IF ~f.ctrl.connected
                  THEN [ f EXCEPT !.ctrl = try_init(@, Clock, in.count, in.rest) ]
                  ELSE f
         IN  IF ~i.ctrl.connected THEN [ w |-> i, go |-> FALSE ]
             ELSE LET p == poll(i.ctrl, i.view.frameno, in)
                  IN  IF p.raised
                      THEN [ w |-> [ i EXCEPT !.ctrl = handle_disconnect(p.self) ],
                             go |-> FALSE ]
                      ELSE [ w |-> [ i EXCEPT !.ctrl = p.self ], go |-> TRUE ]

inject_controller_events(w, in) ==
    LET p == Prologue(w, in)
    IN  IF p.go THEN PolledFrame(p.w) ELSE p.w

\* _HARDCODED_DIR_KEYS
HardcodedDirKey(d) ==
    IF d = <<0, -1>> THEN Key("K_UP")
    ELSE IF d = <<0, 1>> THEN Key("K_DOWN")
    ELSE IF d = <<-1, 0>> THEN Key("K_LEFT")
    ELSE IF d = <<1, 0>> THEN Key("K_RIGHT")
    ELSE IF d = <<1, -1>> THEN Key("K_KP9")
    ELSE IF d = <<-1, -1>> THEN Key("K_KP7")
    ELSE IF d = <<1, 1>> THEN Key("K_KP3")
    ELSE IF d = <<-1, 1>> THEN Key("K_KP1")
    ELSE None

\* Lines 333-349: the face buttons and the left repeater, as raw keys.
HardcodedFrame(c) ==
    LET buttons ==
            (IF button_just_pressed(c.ctrl, BTN_A)
             THEN << make_key_event(Key("K_RETURN")) >> ELSE <<>>)
            \o (IF button_just_pressed(c.ctrl, BTN_B)
                THEN << make_key_event(Key("K_ESCAPE")) >> ELSE <<>>)
            \o (IF button_just_pressed(c.ctrl, BTN_X)
                THEN << make_key_event(Key("K_SPACE")) >> ELSE <<>>)
        l == update(c.left_repeater, get_combined_direction(c.ctrl), Clock)
        moves == IF l.events = <<>> \/ HardcodedDirKey(l.events[1]) = None
                 THEN <<>>
                 ELSE << make_key_event(HardcodedDirKey(l.events[1])) >>
    IN  [ c EXCEPT !.left_repeater = l.self,
                   !.view.events = @ \o buttons \o moves ]

inject_controller_events_hardcoded(w, in) ==
    LET p == Prologue(w, in)
    IN  IF p.go THEN HardcodedFrame(p.w) ELSE p.w

\* patches.py, _wrap_message_input: any of A, B, X pressed is K_RETURN.  A raised
\* poll is swallowed here and the connection tested again.
message_input(w, in) ==
    IF w.view.ctrl_injected_frame = w.view.frameno THEN w
    ELSE LET f == [ w EXCEPT !.view.ctrl_injected_frame = w.view.frameno ]
             i == IF ~f.ctrl.connected
                  THEN [ f EXCEPT !.ctrl = try_init(@, Clock, in.count, in.rest) ]
                  ELSE f
             p == poll(i.ctrl, i.view.frameno, in)
             c == [ i EXCEPT !.ctrl = IF p.raised THEN handle_disconnect(p.self)
                                      ELSE p.self ]
         IN  IF ~i.ctrl.connected THEN i
             ELSE IF c.ctrl.connected
                     /\ ( \/ button_just_pressed(c.ctrl, BTN_A)
                          \/ button_just_pressed(c.ctrl, BTN_B)
                          \/ button_just_pressed(c.ctrl, BTN_X) )
             THEN [ c EXCEPT !.view.events =
                                 Append(@, make_key_event(Key("K_RETURN"))) ]
             ELSE c

\* ------------------------------------------------------------------------
\*  The clock's sliding origin
\* ------------------------------------------------------------------------
\* A timestamp x after the origin moved by dt, told apart up to `window` ticks back.
Rebase(x, dt, window) == IF x = 0 THEN 0 ELSE Max(x - dt, Clock - window)

RebaseRepeater(self, dt) ==
    [ self EXCEPT !.next_fire_time = Rebase(@, dt, DEBOUNCE_TIME),
                  !.last_fire_time = Rebase(@, dt, DEBOUNCE_TIME),
                  !.release_time = Rebase(@, dt, DEBOUNCE_TIME) ]

\* ------------------------------------------------------------------------
\*  State
\* ------------------------------------------------------------------------
VARIABLES
    rep,        \* a DirectionRepeater driven on its own
    repIn,      \* the direction of its latest update call (None before the first)
    repOut,     \* the list its latest update call returned
    repSwitch,  \* the latest call fed a direction, the call before another direction
    repGap,     \* ticks between its two latest emissions, counted up to
                \* DEBOUNCE_TIME (-1 before the second emission)
    repEmitAt,  \* the time of its latest emission (0 before the first)
    repRel,     \* the latest release [time, dir], while its debounce window lasts
    repPre,     \* how the latest call found the repeater: [tooSoon (less than
                \* DEBOUNCE_TIME after the latest emission), bounce (less than
                \* DEBOUNCE_TIME after the latest release), held (active_dir)]
    repRun      \* the run of one direction since that direction's first emission:
                \* [dir, first (time of the first emission), n (emissions, counted
                \* up to MaxRunN), fresh (the first came from the new-direction branch)]

repVars == << rep, repIn, repOut, repSwitch, repGap, repEmitAt, repRel, repPre, repRun >>

VARIABLES
    view,            \* the host's PyGameView, as far as the mod reads or writes it
    p1,              \* view.game.p1: the player, its spells and its items
    browse_mode,     \* browse._browse_mode ("none" for None)
    browse_index,    \* browse._browse_index
    active,          \* walk_target._active
    step_spell,      \* walk_target._step_spell
    ctrl,            \* injection._ctrl, the shared ControllerState
    left_repeater,   \* injection.left_repeater
    right_repeater,  \* injection.right_repeater
    browse_repeater, \* injection.browse_repeater
    calls,           \* what the latest step called, if it was an entry point of
                     \* the mod: its operations and host calls, in order
    walk_origin      \* the player's position when the overlay was last entered

pipeVars == << view, p1, browse_mode, browse_index, active, step_spell, ctrl,
               left_repeater, right_repeater, browse_repeater, calls, walk_origin >>

vars == << repVars, pipeVars >>

\* The directions fed to the standalone repeater.
RepInputs == { None, <<0, 0>>, <<1, 0>>, <<0, 1>> }

\* The instances injection.py creates (left_repeater/browse_repeater, right_repeater).
RepeaterParams ==
    { << MOVE_REPEAT_DELAY, MOVE_REPEAT_INTERVAL >>,
      << CURSOR_REPEAT_DELAY, CURSOR_REPEAT_INTERVAL >> }

NoRelease == [ time |-> 0, dir |-> None ]
NoRun == [ dir |-> None, first |-> 0, n |-> 0, fresh |-> FALSE ]

\* Earliest time after the first emission of a fresh press at which the n-th
\* emission of a held direction is due.
HeldBound(self, n) == self.initial_delay + (n - 2) * self.repeat_interval

\* The run after an update with input d at time t that returned out, where
\* fresh says whether out came from the new-direction branch.
NextRun(run, d, t, out, fresh) ==
    IF IsNeutral(d) THEN NoRun
    ELSE IF run.dir = d
    THEN IF out # <<>> THEN [ run EXCEPT !.n = Min(@ + 1, MaxRunN) ] ELSE run
    ELSE IF out # <<>>
    THEN [ dir |-> d, first |-> t, n |-> 1, fresh |-> fresh ]
    ELSE NoRun

InitRepeater ==
    /\ \E p \in RepeaterParams : rep = DirectionRepeater(p[1], p[2])
    /\ repIn = None
    /\ repOut = <<>>
    /\ repSwitch = FALSE
    /\ repGap = -1
    /\ repEmitAt = 0
    /\ repRel = NoRelease
    /\ repPre = [ tooSoon |-> FALSE, bounce |-> FALSE, held |-> None ]
    /\ repRun = NoRun

\* The frame number the host is at; the frame numbers kept from earlier frames
\* are told apart from it only.
FrameNo == 1

\* The longest lists the host gives the player.
MaxSpells == 2
MaxItems == 1

\* The key binds of the host: each bind with a key, in its first or in its
\* second slot; and the same with no key for confirm.
Binds ==
    { "CONFIRM", "ABORT", "PASS", "CHAR", "HELP", "TAB", "NEXT_EXAMINE_TARGET",
      "PREV_EXAMINE_TARGET", "AUTOPICKUP", "THREAT", "INTERACT", "REROLL",
      "UP", "DOWN", "LEFT", "RIGHT", "UP_RIGHT", "UP_LEFT", "DOWN_RIGHT",
      "DOWN_LEFT" }

DefaultBinds ==
    [ b \in Binds |-> IF b \in { "ABORT", "DOWN" } THEN << None, Key(b) >>
                      ELSE << Key(b), None >> ]

KeyBindConfigs ==
    { DefaultBinds, [ DefaultBinds EXCEPT !["CONFIRM"] = << None, None >> ] }

\* The host's screens: [state, game (a game is running)].  Which input method
\* the host runs depends on the screen.
HostModes ==
    { [ state |-> "TITLE", game |-> FALSE ],
      [ state |-> "LEVEL", game |-> TRUE ],
      [ state |-> "PICK_MODE", game |-> FALSE ],
      [ state |-> "MESSAGE", game |-> TRUE ] }

KeyBindStates == { "TITLE", "LEVEL" }
HardcodedStates == { "PICK_MODE" }
MessageStates == { "MESSAGE" }

\* Rest values of the axes of a pad: two sticks, two triggers.
RestXbox == << 0, 0, 0, 0, -100, -100 >>

Pad(buttons, hat, axes) ==
    [ count |-> 1, err |-> FALSE, rest |-> RestXbox,
      buttons |-> buttons, hat |-> hat, axes |-> axes ]

Idle == Pad({}, <<0, 0>>, RestXbox)
Press(b) == Pad({b}, <<0, 0>>, RestXbox)
\* The d-pad reports up as +1.
DpadUp == Pad({}, <<0, 1>>, RestXbox)
DpadDown == Pad({}, <<0, -1>>, RestXbox)
\* A held with the d-pad right, and with the d-pad down and right.
AimRight == Pad({BTN_A}, <<1, 0>>, RestXbox)
AimDownRight == Pad({BTN_A}, <<1, -1>>, RestXbox)
\* No device, and a device whose read fails.
Gone == [ Idle EXCEPT !.count = 0 ]
Failing == [ Idle EXCEPT !.err = TRUE ]

\* Rest values of other pads: the triggers between the sticks; three stick
\* axes before the triggers; triggers that rest at zero.
RestLinux == << 0, 0, -100, 0, 0, -100 >>
RestThreeSticks == << 0, 0, 0, -100, -100 >>
RestZeroTriggers == << 0, 0, 0, 0, 0, 0 >>

Layouts == { RestXbox, RestLinux, RestThreeSticks, RestZeroTriggers }

\* A reading of the pad whose axes rest at `rest`.
PadOf(rest, buttons, hat, axes) == [ Pad(buttons, hat, axes) EXCEPT !.rest = rest ]

\* What a pad with the axes `rest` reports: at rest, and every axis at one end.
ReadingsOf(rest) ==
    { PadOf(rest, {}, <<0, 0>>, axes) :
        axes \in { rest, [ i \in DOMAIN rest |-> 100 ], [ i \in DOMAIN rest |-> -100 ] } }

ConnectPads == UNION { ReadingsOf(rest) : rest \in Layouts } \cup { Gone }

\* What the device reports in the frames of SpecOnce.
OncePads == { Idle, Press(BTN_A), Press(BTN_RB), Gone }

\* Both triggers pulled and the left stick pushed right.
Pulled == Pad({}, <<0, 0>>, << 100, 0, 0, 0, 100, 100 >>)

\* The d-pad pushed left while the left stick is pushed down.
DpadLeftStickDown == Pad({}, <<-1, 0>>, << 0, 100, 0, 0, -100, -100 >>)

\* What the device reports to the polls of SpecPoll.
PollPads ==
    { Idle, Press(BTN_A), Press(BTN_B), DpadUp, Pulled, DpadLeftStickDown,
      Gone, Failing }

\* What the device reports in the frames of the specifications below.
PadInputs ==
    { Idle, Press(BTN_A), Press(BTN_B), Press(BTN_RB), Press(BTN_LB),
      Pad({BTN_A, BTN_RB}, <<0, 0>>, RestXbox), Gone, Failing }

BrowsePads ==
    { Idle, Press(BTN_A), Press(BTN_B), Press(BTN_RB), Press(BTN_LB),
      DpadUp, DpadDown }

ConfirmPads == { Idle, Press(BTN_A), Press(BTN_RB), Press(BTN_LB), DpadDown }

WalkPads ==
    { Idle, Press(BTN_A), Press(BTN_B), AimRight, AimDownRight }

\* B alone, and B pressed while A is held.
CancelPads ==
    { Idle, Press(BTN_A), Press(BTN_B), Pad({BTN_A, BTN_B}, <<0, 0>>, RestXbox),
      AimRight }

\* A held with the d-pad in each of the 8 directions, and with the left stick
\* pushed fully to the right.
AimPads ==
    { Idle, Press(BTN_A), Pad({BTN_A}, <<0, 0>>, << 100, 0, 0, 0, -100, -100 >>) }
    \cup { Pad({BTN_A}, h, RestXbox) :
             h \in ({-1, 0, 1} \X {-1, 0, 1}) \ { <<0, 0>> } }

\* Ticks between two frames of the host: a frame rate at which a held direction
\* repeats every other frame, and one at which a lost device is scanned for
\* again every other frame.
FrameStep == 20
SlowStep == 100

\* controller_support.py: the module is loaded, `count` devices being plugged in.
Load(count) == try_init(ControllerState, Clock, count, RestXbox)

\* The host's view on the screen m, before the mod has touched it.
InitView(m) ==
    /\ view = [ state |-> m.state, game |-> m.game,
                frameno |-> FrameNo, ctrl_injected_frame |-> -1,
                cur_spell |-> None, cur_spell_target |-> None,
                targetable_tiles |-> None, tab_targets |-> <<>>,
                deploy_target |-> None, events |-> <<>>,
                key_binds |-> DefaultBinds ]
    /\ p1 = [ x |-> 0, y |-> 0, spells |-> <<>>, items |-> <<>> ]

TitleScreen == [ state |-> "TITLE", game |-> FALSE ]
LevelScreen == [ state |-> "LEVEL", game |-> TRUE ]

InitMod ==
    /\ browse_mode = "none"
    /\ browse_index = 0
    /\ active = FALSE
    /\ step_spell = None
    /\ left_repeater = DirectionRepeater(MOVE_REPEAT_DELAY, MOVE_REPEAT_INTERVAL)
    /\ right_repeater = DirectionRepeater(CURSOR_REPEAT_DELAY, CURSOR_REPEAT_INTERVAL)
    /\ browse_repeater = DirectionRepeater(MOVE_REPEAT_DELAY, MOVE_REPEAT_INTERVAL)
    /\ calls = <<>>
    /\ walk_origin = None

InitPipeline ==
    /\ InitView(TitleScreen)
    /\ InitMod
    /\ \E count \in {0, 1} : ctrl = Load(count)

\* The standalone repeater starts as any of the instances, the pipeline at rest.
InitStandalone ==
    /\ InitRepeater
    /\ InitView(TitleScreen)
    /\ InitMod
    /\ ctrl = Load(1)

InitStandaloneAtRest ==
    /\ rep = DirectionRepeater(MOVE_REPEAT_DELAY, MOVE_REPEAT_INTERVAL)
    /\ repIn = None
    /\ repOut = <<>>
    /\ repSwitch = FALSE
    /\ repGap = -1
    /\ repEmitAt = 0
    /\ repRel = NoRelease
    /\ repPre = [ tooSoon |-> FALSE, bounce |-> FALSE, held |-> None ]
    /\ repRun = NoRun

Init ==
    /\ InitPipeline
    /\ InitStandaloneAtRest

\* One call of rep.update(d), dt ticks after the previous call.
RepeaterUpdate(d, dt) ==
    LET t == Clock + dt
        r == update(rep, d, t)
        rel == IF IsNeutral(d) /\ rep.active_dir # None
               THEN [ time |-> t, dir |-> rep.active_dir ]
               ELSE IF repRel.dir # None /\ t - repRel.time < DEBOUNCE_TIME
               THEN repRel
               ELSE NoRelease
        run == NextRun(repRun, d, t, r.events, d # rep.active_dir)
    IN  /\ rep' = RebaseRepeater(r.self, dt)
        /\ repIn' = d
        /\ repOut' = r.events
        /\ repSwitch' = (~IsNeutral(d) /\ ~IsNeutral(repIn) /\ d # repIn)
        /\ repGap' = IF r.events = <<>> THEN repGap
                     ELSE IF repEmitAt = 0 THEN -1
                     ELSE Min(t - repEmitAt, DEBOUNCE_TIME)
        /\ repEmitAt' = Rebase(IF r.events = <<>> THEN repEmitAt ELSE t,
                               dt, DEBOUNCE_TIME)
        /\ repPre' = [ tooSoon |-> t - repEmitAt < DEBOUNCE_TIME,
                       bounce  |-> repRel.dir # None
                                   /\ t - repRel.time < DEBOUNCE_TIME,
                       held    |-> rep.active_dir ]
        /\ repRel' = [ rel EXCEPT !.time = Rebase(@, dt, DEBOUNCE_TIME) ]
        /\ repRun' = [ run EXCEPT !.first = Rebase(@, dt, HeldBound(rep, MaxRunN)) ]
        /\ UNCHANGED pipeVars

NextRepeater == \E d \in RepInputs, dt \in 0 .. MaxStep : RepeaterUpdate(d, dt)

SpecRepeater == InitStandalone /\ [][NextRepeater]_vars

\* ------------------------------------------------------------------------
\*  The pipeline: the host's frames and the mod's entry points
\* ------------------------------------------------------------------------
World ==
    [ view |-> view, p1 |-> p1, browse_mode |-> browse_mode,
      browse_index |-> browse_index, active |-> active, step_spell |-> step_spell,
      ctrl |-> ctrl, left_repeater |-> left_repeater,
      right_repeater |-> right_repeater, browse_repeater |-> browse_repeater,
      calls |-> <<>>, can_execute_inputs |-> TRUE ]

\* The world an entry point leaves behind.
SetWorld(w) ==
    /\ view' = w.view
    /\ p1' = w.p1
    /\ browse_mode' = w.browse_mode
    /\ browse_index' = w.browse_index
    /\ active' = w.active
    /\ step_spell' = w.step_spell
    /\ ctrl' = w.ctrl
    /\ left_repeater' = w.left_repeater
    /\ right_repeater' = w.right_repeater
    /\ browse_repeater' = w.browse_repeater
    /\ calls' = w.calls
    /\ walk_origin' = IF w.active /\ ~active THEN Point(p1.x, p1.y)
                      ELSE IF ~w.active /\ ~active THEN None
                      ELSE walk_origin
    /\ UNCHANGED repVars

\* A frame number kept from an earlier frame.
Older(f) == IF f = FrameNo THEN FrameNo - 1 ELSE f

\* The world when the host starts its next frame, dt ticks later, with a fresh
\* event queue; dt = 0 is the frame going on.
Frame(dt, can) ==
    IF dt = 0 THEN [ World EXCEPT !.can_execute_inputs = can ]
    ELSE [ World EXCEPT
             !.can_execute_inputs = can,
             !.view.ctrl_injected_frame = Older(@),
             !.view.events = <<>>,
             !.ctrl.last_poll_frame = Older(@),
             !.ctrl.last_scan_time = Rebase(@, dt, RESCAN_INTERVAL),
             !.left_repeater = RebaseRepeater(@, dt),
             !.right_repeater = RebaseRepeater(@, dt),
             !.browse_repeater = RebaseRepeater(@, dt) ]

\* _make_wrapper: a key-bind input method of the host runs, in the host's next
\* frame or (dt = 0) once more in the same; `can` is what
\* view.can_execute_inputs() answers in it.
KeyBindInput(dt, in, can) ==
    /\ view.state \in KeyBindStates
    /\ SetWorld(inject_controller_events(Frame(dt, can), in))

\* _wrap_hardcoded_state: a raw-key input method of the host runs.
HardcodedInput(dt, in) ==
    /\ view.state \in HardcodedStates
    /\ SetWorld(inject_controller_events_hardcoded(Frame(dt, TRUE), in))

\* _wrap_message_input: process_message_input runs.
MessageInput(dt, in) ==
    /\ view.state \in MessageStates
    /\ SetWorld(message_input(Frame(dt, TRUE), in))

\* Polls counted in one frame.
MaxPolls == 3

\* _ctrl.poll(view.frameno) as its callers run it, on a connected device; the
\* polls of one frame are listed in `calls`, each with the state it found.
DirectPoll(in) ==
    /\ ctrl.connected
    /\ Len(calls) < MaxPolls
    /\ SetWorld([ Call(World, "poll", [ frameno |-> view.frameno, before |-> ctrl ])
                    EXCEPT !.calls = calls \o @,
                           !.ctrl = poll(ctrl, view.frameno, in).self ])

\* _ctrl.try_init() as its callers run it, on a device that is not connected.
DirectTryInit(in) ==
    /\ ~ctrl.connected
    /\ SetWorld([ World EXCEPT !.calls = calls,
                               !.ctrl = try_init(ctrl, Clock, in.count, in.rest) ])

\* The host starts its next frame.
HostNextFrame ==
    /\ SetWorld(Frame(SlowStep, TRUE))

\* What a step of the host leaves alone.
HostLeaves ==
    /\ calls' = <<>>
    /\ UNCHANGED << browse_mode, browse_index, active, step_spell, ctrl,
                    left_repeater, right_repeater, browse_repeater, walk_origin,
                    repVars >>

\* The host changes screen.
HostSetState(m) ==
    /\ m.state # view.state
    /\ view' = [ view EXCEPT !.state = m.state, !.game = m.game ]
    /\ UNCHANGED p1
    /\ HostLeaves

\* The player rebinds the keys.
HostRebind(binds) ==
    /\ binds # view.key_binds
    /\ view' = [ view EXCEPT !.key_binds = binds ]
    /\ UNCHANGED p1
    /\ HostLeaves

\* The host previews a spell on its own (hotkey, mouse).
HostChooseSpell(spell) ==
    /\ view.state = "LEVEL"
    /\ spell # view.cur_spell
    /\ view' = [ view EXCEPT !.cur_spell = spell,
                             !.cur_spell_target = Point(p1.x, p1.y),
                             !.targetable_tiles = Tiles(MapCells) ]
    /\ UNCHANGED p1
    /\ HostLeaves

\* The host casts or aborts what it previews.
HostClearSpell ==
    /\ view.cur_spell # None
    /\ view' = [ view EXCEPT !.cur_spell = None,
                             !.cur_spell_target = None,
                             !.targetable_tiles = None ]
    /\ UNCHANGED p1
    /\ HostLeaves

\* The player learns a spell or loses the one learnt last.
HostLearnSpell ==
    /\ view.game
    /\ Len(p1.spells) < MaxSpells
    /\ p1' = [ p1 EXCEPT !.spells = Append(@, Spell(Len(@) + 1)) ]
    /\ UNCHANGED view
    /\ HostLeaves

HostForgetSpell ==
    /\ view.game
    /\ p1.spells # <<>>
    /\ p1' = [ p1 EXCEPT !.spells = SubSeq(@, 1, Len(@) - 1) ]
    /\ UNCHANGED view
    /\ HostLeaves

\* The player picks up an item or uses up the one picked up last.
HostGainItem ==
    /\ view.game
    /\ Len(p1.items) < MaxItems
    /\ p1' = [ p1 EXCEPT !.items = Append(@, Item(Len(@) + 1)) ]
    /\ UNCHANGED view
    /\ HostLeaves

HostLoseItem ==
    /\ view.game
    /\ p1.items # <<>>
    /\ p1' = [ p1 EXCEPT !.items = SubSeq(@, 1, Len(@) - 1) ]
    /\ UNCHANGED view
    /\ HostLeaves

\* The host starts or ends the deployment onto the next level.
HostDeploy ==
    /\ view.state = "LEVEL"
    /\ view.deploy_target # None \/ view.cur_spell = None
    /\ view' = [ view EXCEPT !.deploy_target =
                                 IF @ = None THEN Point(p1.x, p1.y) ELSE None ]
    /\ UNCHANGED p1
    /\ HostLeaves

\* The host moves the player by a step; with a spell previewed, or while the
\* player is being deployed, the direction keys steer the reticle instead.
HostMovePlayer(d) ==
    /\ view.state = "LEVEL"
    /\ view.cur_spell = None
    /\ view.deploy_target = None
    /\ d # <<0, 0>>
    /\ can_move(p1, p1.x + d[1], p1.y + d[2])
    /\ p1' = [ p1 EXCEPT !.x = @ + d[1], !.y = @ + d[2] ]
    /\ UNCHANGED view
    /\ HostLeaves

HostSpells == { p1.spells[i] : i \in 1 .. Len(p1.spells) }
             \cup { p1.items[i].spell : i \in 1 .. Len(p1.items) }

\* The three entry points on every screen of the host, with a device that
\* comes and goes; a frame may run an entry point twice (dt = 0).
Next ==
    \/ \E dt \in {0, SlowStep}, in \in PadInputs, can \in BOOLEAN :
          KeyBindInput(dt, in, can)
    \/ \E dt \in {0, SlowStep}, in \in PadInputs : HardcodedInput(dt, in)
    \/ \E dt \in {0, SlowStep}, in \in PadInputs : MessageInput(dt, in)
    \/ \E m \in HostModes : HostSetState(m)
    \/ HostClearSpell
    \/ HostLearnSpell
    \/ HostGainItem

Spec == Init /\ [][Next]_vars

\* The game has been running with its device for longer than a rescan interval
\* and shows a level.
InitRunning ==
    /\ InitView(LevelScreen)
    /\ InitMod
    /\ ctrl = [ Load(1) EXCEPT !.last_scan_time = Clock - RESCAN_INTERVAL ]
    /\ InitStandaloneAtRest

\* The key-bind entry point on the level screen while the player's lists change.
NextBrowse ==
    \/ \E in \in BrowsePads, can \in BOOLEAN : KeyBindInput(FrameStep, in, can)
    \/ HostClearSpell
    \/ HostLearnSpell
    \/ HostForgetSpell
    \/ HostGainItem
    \/ HostLoseItem

SpecBrowse == InitRunning /\ [][NextBrowse]_vars

\* The key-bind entry point on the level screen while the keys are rebound.
NextConfirm ==
    \/ \E in \in ConfirmPads, can \in BOOLEAN : KeyBindInput(FrameStep, in, can)
    \/ \E binds \in KeyBindConfigs : HostRebind(binds)
    \/ HostClearSpell
    \/ HostLearnSpell
    \/ HostGainItem

SpecConfirm == InitRunning /\ [][NextConfirm]_vars

\* The key-bind entry point while the player moves and the host previews spells
\* of its own.
NextWalk ==
    \/ \E in \in WalkPads, can \in BOOLEAN : KeyBindInput(FrameStep, in, can)
    \/ \E m \in { TitleScreen, LevelScreen } : HostSetState(m)
    \/ \E spell \in HostSpells : HostChooseSpell(spell)
    \/ HostClearSpell
    \/ HostLearnSpell
    \/ HostDeploy
    \/ \E d \in {-1, 0, 1} \X {-1, 0, 1} : HostMovePlayer(d)

SpecWalk == InitRunning /\ [][NextWalk]_vars

\* The key-bind entry point while the cancel button is used and the host
\* changes screen and preview.
NextCancel ==
    \/ \E in \in CancelPads, can \in BOOLEAN : KeyBindInput(FrameStep, in, can)
    \/ \E m \in { TitleScreen, LevelScreen } : HostSetState(m)
    \/ \E spell \in HostSpells : HostChooseSpell(spell)
    \/ HostClearSpell
    \/ HostLearnSpell

SpecCancel == InitRunning /\ [][NextCancel]_vars

\* The key-bind entry point while the player aims in every direction from
\* every tile.
NextAim ==
    \/ \E in \in AimPads : KeyBindInput(FrameStep, in, TRUE)
    \/ \E d \in {-1, 0, 1} \X {-1, 0, 1} : HostMovePlayer(d)

SpecAim == InitRunning /\ [][NextAim]_vars

\* The three entry points, run once or again within a frame, on every screen
\* of the host.
NextOnce ==
    \/ \E dt \in {0, SlowStep}, in \in OncePads, can \in BOOLEAN :
          KeyBindInput(dt, in, can)
    \/ \E dt \in {0, SlowStep}, in \in OncePads : HardcodedInput(dt, in)
    \/ \E dt \in {0, SlowStep}, in \in OncePads : MessageInput(dt, in)
    \/ \E m \in HostModes : HostSetState(m)
    \/ HostClearSpell
    \/ HostLearnSpell

SpecOnce == Init /\ [][NextOnce]_vars

\* Raw values of a stick axis around the dead zone's radius and the direction
\* threshold, and at half and full deflection.
StickGrid ==
    { -100, -50, -STICK_DEADZONE, -20, -18, -DIRECTION_THRESHOLD - 1,
      -DIRECTION_THRESHOLD, -DIRECTION_THRESHOLD + 1, 0,
      DIRECTION_THRESHOLD - 1, DIRECTION_THRESHOLD, DIRECTION_THRESHOLD + 1,
      18, 20, STICK_DEADZONE, 50, 100 }

\* A reading with the left stick at (x, y) and the right stick at (y, x).
Sticks(x, y) == Pad({}, <<0, 0>>, << x, y, y, x, -100, -100 >>)

\* A frame of a host that polls the pad with its sticks at (x, y).
StickFrame(x, y) ==
    /\ ctrl.connected
    /\ SetWorld([ Call(Frame(FrameStep, TRUE), "stick_to_digital",
                       [ x |-> x, y |-> y ])
                    EXCEPT !.ctrl = poll(Frame(FrameStep, TRUE).ctrl,
                                         view.frameno, Sticks(x, y)).self ])

\* The device object while the sticks move over the grid.
NextStick ==
    \/ \E x \in StickGrid, y \in StickGrid : StickFrame(x, y)

SpecStick == InitRunning /\ [][NextStick]_vars

\* A reading with the right stick pushed towards d.
RightPush(d) == Pad({}, <<0, 0>>, << 0, 0, 100 * d[1], 100 * d[2], -100, -100 >>)

\* A reading with A held and the d-pad pushed towards hat.
AimAt(hat) == Pad({BTN_A}, hat, RestXbox)

ReticlePads ==
    { Idle, Press(BTN_A), Press(BTN_RB), RightPush(<<1, 1>>),
      RightPush(<<-1, 0>>) }

\* The key-bind entry point on the level screen while the reticles are
\* steered and the host previews, deploys and moves the player.
NextReticle ==
    \/ \E in \in ReticlePads : KeyBindInput(SlowStep, in, TRUE)
    \/ \E spell \in HostSpells : HostChooseSpell(spell)
    \/ HostClearSpell
    \/ HostLearnSpell
    \/ HostDeploy
    \/ \E d \in { <<1, 0>>, <<-1, 0>> } : HostMovePlayer(d)

SpecReticle == InitRunning /\ [][NextReticle]_vars

\* The longest time from one update to the next at frame cadence.
MaxCadence == 3

\* The repeater updated once a frame.
NextHold == \E d \in RepInputs, dt \in 0 .. MaxCadence : RepeaterUpdate(d, dt)

\* The next frame's update, later on the clock, with the input where it was.
Tick == \E dt \in 1 .. MaxCadence : RepeaterUpdate(repIn, dt)

\* The repeater fed by a loop that keeps running while time advances: as long
\* as the input stays where it is, later updates with it keep happening.  An
\* update that changes nothing is a stuttering step, so a repeater that has
\* stopped answering a held direction is not pushed any further.
SpecHold == InitStandalone /\ [][NextHold]_vars /\ WF_vars(Tick)

\* The device object while pads of several axis layouts are plugged in and
\* pulled out; a handle reads the pad it was opened on.
NextConnect ==
    \/ \E in \in ConnectPads :
          /\ ctrl.connected
          /\ in.count = 0 \/ in.rest = ctrl.joystick.rest
          /\ DirectPoll(in)
    \/ \E in \in ConnectPads : DirectTryInit(in)
    \/ HostNextFrame

SpecConnect == Init /\ [][NextConnect]_vars

\* The device object on its own: polls, several in a frame, connection attempts
\* after a loss, and the host's frames going by.
NextPoll ==
    \/ \E in \in PollPads : DirectPoll(in)
    \/ \E in \in PollPads : DirectTryInit(in)
    \/ HostNextFrame

SpecPoll == InitRunning /\ [][NextPoll]_vars

\* ------------------------------------------------------------------------
\*  DirectionRepeater: properties
\* ------------------------------------------------------------------------

\* C1: any two emissions of one repeater are at least DEBOUNCE_TIME apart,
\* whatever directions are fed and however the calls are spaced.
C1_DebounceGap == repGap = -1 \/ repGap >= DEBOUNCE_TIME

\* A changed direction emitted exactly when the debounce interval has passed.
C1_Witness ==
    /\ repOut # <<>>
    /\ repSwitch
    /\ repPre.held # None
    /\ repGap = DEBOUNCE_TIME

\* C2 as stated: with one direction fed on every call from its first emission
\* on, the n-th emission (n >= 2) comes no earlier than
\* initial_delay + (n-2)*repeat_interval after the first.
C2_Original ==
    repRun.n >= 2 => Clock - repRun.first >= HeldBound(rep, repRun.n)

\* C2, amended: the bound holds when the first emission is a fresh press; when
\* the first emission is the delayed one that follows a suppressed bounce, the
\* n-th emission comes no earlier than (n-1)*repeat_interval after it.
C2_HeldCadence ==
    repRun.n >= 2 =>
        Clock - repRun.first >=
            IF repRun.fresh THEN HeldBound(rep, repRun.n)
            ELSE (repRun.n - 1) * rep.repeat_interval

\* The third emission of a fresh press, as early as it can come.
C2_Witness ==
    /\ repRun.fresh
    /\ repRun.n = 3
    /\ repOut = << repRun.dir >>
    /\ Clock - repRun.first = HeldBound(rep, 3)

\* C3: a repeater holding D that is released and fed D again less than
\* DEBOUNCE_TIME after the release emits nothing on the return.
C3_NoBounceDuplicate ==
    ( /\ repRel.dir # None
      /\ repIn = repRel.dir
      /\ Clock - repRel.time < DEBOUNCE_TIME ) => repOut = <<>>

\* The return of D inside the window, the latest emission being old enough
\* for the debounce guard to let the call through.
C3_Witness ==
    /\ repRel.dir # None
    /\ repIn = repRel.dir
    /\ Clock - repRel.time < DEBOUNCE_TIME
    /\ ~repPre.tooSoon
    /\ repEmitAt # 0
    /\ repOut = <<>>

\* C4 as stated: a non-neutral direction that differs from the non-neutral
\* direction of the call before is emitted by that call.
C4_Original == repSwitch => repOut = << repIn >>

\* C4, amended: such a direction B, unless it is the direction the repeater
\* still holds, is emitted at once when at least DEBOUNCE_TIME has passed since
\* the latest emission and since the latest release, and otherwise not at all.
C4_SwitchEmits ==
    (repSwitch /\ repPre.held # repIn) =>
        repOut = IF repPre.tooSoon \/ repPre.bounce THEN <<>> ELSE << repIn >>

\* A held direction replaced by another one, which is emitted at once.
C4_Witness ==
    /\ repSwitch
    /\ repPre.held # None
    /\ repPre.held # repIn
    /\ repOut = << repIn >>

\* ------------------------------------------------------------------------
\*  The two overlays: properties
\* ------------------------------------------------------------------------
\* The entries of `calls` for the operation or host call `op`.
Entries(op) == { i \in DOMAIN calls : calls[i].op = op }

\* The host's list of a kind of session.
ListOf(mode) == IF mode = "spells" THEN p1.spells ELSE p1.items

\* The spell the host previews for the entry at index i (0-based) of a list.
PreviewOf(mode, i) ==
    IF mode = "items" THEN ListOf(mode)[i + 1].spell ELSE ListOf(mode)[i + 1]

\* C5: the browse session and the walk-target overlay are never both open,
\* whichever entry points run and however the host changes screen.
C5_Exclusive == ~(browse_mode # "none" /\ active)

\* The overlay is up and stays the only one open in a frame in which RB, which
\* opens the spell browser otherwise, is pressed with spells to browse.
C5_Witness ==
    /\ active
    /\ browse_mode = "none"
    /\ view.ctrl_injected_frame = view.frameno
    /\ button_just_pressed(ctrl, BTN_RB)
    /\ p1.spells # <<>>
    /\ view.state = "LEVEL"

\* C6 as stated: whenever a session is open its index is within the current list.
C6_Original ==
    browse_mode # "none"
        => browse_index \in 0 .. Len(ListOf(browse_mode)) - 1

\* C6, amended: the index of an open session is never negative, and it is
\* within the current list right after every open or cycle that found the list
\* non-empty; what the host removes from the list since is not followed.
C6_IndexAfterUse ==
    /\ browse_mode # "none" => browse_index >= 0
    /\ \A i \in Entries("browse_open") \cup Entries("browse_cycle") :
          (browse_mode # "none" /\ ListOf(browse_mode) # <<>>)
              => browse_index \in 0 .. Len(ListOf(browse_mode)) - 1

\* A cycle on a session whose index the shrunken list had left behind.
C6_Witness ==
    /\ browse_mode = "spells"
    /\ \E i \in Entries("browse_cycle") :
          /\ calls[i].arg.index >= calls[i].arg.length
          /\ calls[i].arg.length >= 1
    /\ browse_index \in 0 .. Len(p1.spells) - 1

\* C7: a cycle by delta over a list of length N >= 1 leaves the index at
\* (index + delta) mod N, never negative, and has the host preview the entry
\* at that index.
C7_CycleWraps ==
    \A i \in Entries("browse_cycle") :
        calls[i].arg.length >= 1 =>
            /\ browse_index = (calls[i].arg.index + calls[i].arg.delta)
                                  % calls[i].arg.length
            /\ browse_index >= 0
            /\ \E j \in Entries("choose_spell") :
                  /\ j > i
                  /\ calls[j].arg = PreviewOf(browse_mode, browse_index)

\* A cycle forward from the last entry of two has wrapped to the first.
C7_Witness ==
    \E i \in Entries("browse_cycle") :
        /\ calls[i].arg.length = 2
        /\ calls[i].arg.index = 1
        /\ calls[i].arg.delta = 1
        /\ browse_index = 0
        /\ view.cur_spell = p1.spells[1]

\* C8: opening a session on an empty list leaves it closed, plays the abort
\* sound once and has the host preview nothing.
C8_EmptyOpen ==
    \A i \in Entries("browse_open") :
        ListOf(calls[i].arg.mode) = <<>> =>
            /\ browse_mode = "none"
            /\ Cardinality({ j \in Entries("play_sound") :
                               calls[j].arg = [ sound |-> "menu_abort" ] }) = 1
            /\ Entries("choose_spell") = {}

\* LB was pressed with no item in the bag.
C8_Witness ==
    /\ \E i \in Entries("browse_open") : calls[i].arg.mode = "items"
    /\ p1.items = <<>>
    /\ p1.spells # <<>>
    /\ Entries("play_sound") # {}

\* The keys the host has bound to confirm.
ConfirmKeys ==
    { view.key_binds["CONFIRM"][k] : k \in 1 .. 2 } \ { None }

\* C9 as stated: after every confirm the session is closed and the queue holds
\* a confirm event.
C9_Original ==
    Entries("browse_confirm") # {} =>
        /\ browse_mode = "none"
        /\ \E k \in DOMAIN view.events :
              /\ view.events[k].type = "KEYDOWN"
              /\ view.events[k].key \in ConfirmKeys

\* C9, amended: a confirm closes the session and then appends one event, the
\* key-down of the first key bound to confirm, if the host has a key bound to
\* confirm; with none bound it closes the session and appends nothing.
C9_ConfirmWhenBound ==
    \A i \in Entries("browse_confirm") :
        /\ browse_mode = "none"
        /\ IF ConfirmKeys # {}
           THEN /\ Len(view.events) = calls[i].arg.events + 1
                /\ view.events[Len(view.events)].type = "KEYDOWN"
                /\ view.events[Len(view.events)].key \in ConfirmKeys
           ELSE Len(view.events) = calls[i].arg.events

\* A confirmed selection with a key bound to confirm.
C9_Witness ==
    /\ Entries("browse_confirm") # {}
    /\ ConfirmKeys # {}
    /\ view.events # <<>>
    /\ view.cur_spell \in HostSpells

\* C10: a committing exit with the overlay's aim on a legal adjacent cell
\* clears the overlay (preview spell, target, targetable tiles, session) before
\* it has the host move, and has the host move once, by aim - origin.
C10_CommitMoves ==
    \A i \in Entries("walk_target_exit") :
        ( /\ calls[i].arg.do_walk
          /\ calls[i].active
          /\ calls[i].cur_spell = StepSpell
          /\ calls[i].arg.aim # None
          /\ calls[i].arg.aim # calls[i].arg.actor
          /\ calls[i].arg.legal )
        => /\ Cardinality(Entries("try_move")) = 1
           /\ \A j \in Entries("try_move") :
                 /\ j > i
                 /\ calls[j].arg = << calls[i].arg.aim[1] - walk_origin[1],
                                      calls[i].arg.aim[2] - walk_origin[2] >>
                 /\ calls[j].cur_spell = None
                 /\ calls[j].cur_spell_target = None
                 /\ calls[j].targetable_tiles = None
                 /\ ~calls[j].active
           /\ ~active
           /\ step_spell = None

\* A was let go with the aim one cell to the right, and the player has moved.
C10_Witness ==
    /\ \E i \in Entries("walk_target_exit") :
          /\ calls[i].arg.do_walk
          /\ calls[i].cur_spell = StepSpell
          /\ calls[i].arg.aim = <<1, 0>>
          /\ calls[i].arg.actor = <<0, 0>>
    /\ Entries("try_move") # {}
    /\ p1.x = 1
    /\ p1.y = 0

\* ------------------------------------------------------------------------
\*  The walk-target overlay: properties
\* ------------------------------------------------------------------------
\* The overlay and what it installed in the host's preview are gone.
OverlayCleared ==
    /\ ~active
    /\ step_spell = None
    /\ view.cur_spell = None
    /\ view.cur_spell_target = None
    /\ view.targetable_tiles = None

AbortCues ==
    { j \in Entries("play_sound") : calls[j].arg = [ sound |-> "menu_abort" ] }

\* C11: a committing exit with the aim still on the origin clears the overlay,
\* has the host move nothing and plays no sound.
C11_SilentCancel ==
    \A i \in Entries("walk_target_exit") :
        ( /\ calls[i].arg.do_walk
          /\ calls[i].active
          /\ calls[i].arg.aim # None
          /\ calls[i].arg.aim = walk_origin )
        => /\ OverlayCleared
           /\ Entries("try_move") = {}
           /\ Entries("play_sound") = {}

\* A was pressed and let go without a direction.
C11_Witness ==
    /\ \E i \in Entries("walk_target_exit") :
          /\ calls[i].arg.do_walk
          /\ calls[i].active
          /\ calls[i].cur_spell = StepSpell
          /\ calls[i].arg.aim = walk_origin
    /\ ~active
    /\ ~button_held(ctrl, BTN_A)
    /\ button_just_released(ctrl, BTN_A)

\* C12: a committing exit with the aim on an adjacent cell that fails the
\* legality check clears the overlay, has the host move nothing and plays the
\* abort sound exactly once.
C12_IllegalAim ==
    \A i \in Entries("walk_target_exit") :
        ( /\ calls[i].arg.do_walk
          /\ calls[i].active
          /\ calls[i].arg.aim # None
          /\ calls[i].arg.aim # calls[i].arg.actor
          /\ Abs(calls[i].arg.aim[1] - calls[i].arg.actor[1]) <= 1
          /\ Abs(calls[i].arg.aim[2] - calls[i].arg.actor[2]) <= 1
          /\ ~calls[i].arg.legal )
        => /\ OverlayCleared
           /\ Entries("try_move") = {}
           /\ Cardinality(AbortCues) = 1
           /\ Entries("play_sound") = AbortCues

\* A was let go with the aim on the wall below and to the right of the player.
C12_Witness ==
    /\ \E i \in Entries("walk_target_exit") :
          /\ calls[i].arg.do_walk
          /\ calls[i].cur_spell = StepSpell
          /\ calls[i].arg.aim = <<1, 1>>
          /\ calls[i].arg.actor = <<0, 0>>
    /\ AbortCues # {}
    /\ p1.x = 0
    /\ p1.y = 0

\* C13 as stated: a cancelling exit clears the overlay and plays the abort sound.
C13_Original ==
    \A i \in Entries("walk_target_exit") :
        (~calls[i].arg.do_walk /\ calls[i].active)
        => /\ OverlayCleared
           /\ AbortCues # {}

\* C13, amended: a cancelling exit clears the overlay, has the host move
\* nothing and plays no sound.
C13_CancelSilent ==
    \A i \in Entries("walk_target_exit") :
        (~calls[i].arg.do_walk /\ calls[i].active)
        => /\ OverlayCleared
           /\ Entries("try_move") = {}
           /\ Entries("play_sound") = {}

\* B was pressed while A was held with the aim one cell to the right.
C13_Witness ==
    /\ \E i \in Entries("walk_target_exit") :
          /\ ~calls[i].arg.do_walk
          /\ calls[i].active
          /\ calls[i].cur_spell = StepSpell
          /\ calls[i].arg.aim = <<1, 0>>
          /\ calls[i].arg.actor = <<0, 0>>
    /\ button_just_pressed(ctrl, BTN_B)
    /\ button_held(ctrl, BTN_A)
    /\ view.state = "LEVEL"
    /\ ~active

\* C16 as stated: with the overlay up, a frame in which B goes down closes it
\* by a cancelling exit and has the host move nothing, whatever else is held.
C16_Original ==
    \A i \in Entries("walk_target_exit") :
        (calls[i].active /\ button_just_pressed(ctrl, BTN_B))
        => /\ ~calls[i].arg.do_walk
           /\ Entries("try_move") = {}

\* C16, amended: with the overlay up, a frame in which B goes down while A is
\* still held closes the overlay by a cancelling exit and has the host move
\* nothing; if A is no longer held in that frame on the level screen, the
\* release is handled first and the exit is a committing one.
C16_CancelWhileHeld ==
    /\ ( /\ walk_origin # None
         /\ button_held(ctrl, BTN_A)
         /\ ~button_just_pressed(ctrl, BTN_A)
         /\ button_just_pressed(ctrl, BTN_B) )
       => (~active /\ step_spell = None)
    /\ \A i \in Entries("walk_target_exit") :
          (calls[i].active /\ button_just_pressed(ctrl, BTN_B))
          => IF button_held(ctrl, BTN_A)
             THEN ~calls[i].arg.do_walk /\ Entries("try_move") = {}
             ELSE view.state = "LEVEL" => calls[i].arg.do_walk

\* B was pressed while A was held without a direction: the overlay is gone and
\* the player stands where it stood.
C16_Witness ==
    /\ \E i \in Entries("walk_target_exit") :
          /\ calls[i].active
          /\ ~calls[i].arg.do_walk
          /\ calls[i].cur_spell = StepSpell
          /\ calls[i].arg.aim = calls[i].arg.actor
    /\ button_just_pressed(ctrl, BTN_B)
    /\ button_held(ctrl, BTN_A)
    /\ ~button_just_pressed(ctrl, BTN_A)
    /\ walk_origin = << p1.x, p1.y >>
    /\ ~active

\* C14 as stated: when walk_target_update or walk_target_exit finds the overlay
\* up but the host's preview no longer on the overlay's StepSpell, the overlay
\* resets its own state only: the host's preview is left as found, the host
\* moves nothing and no sound is played.
C14_Original ==
    \A i \in Entries("walk_target_update") \cup Entries("walk_target_exit") :
        (calls[i].active /\ calls[i].cur_spell # StepSpell)
        => /\ ~active
           /\ step_spell = None
           /\ view.cur_spell = calls[i].cur_spell
           /\ view.cur_spell_target = calls[i].cur_spell_target
           /\ view.targetable_tiles = calls[i].targetable_tiles
           /\ Entries("try_move") = {}
           /\ Entries("play_sound") = {}

\* The cell at direction d from the tile the overlay was entered on.
FromOrigin(d) == Point(walk_origin[1] + d[1], walk_origin[2] + d[2])

\* The updates of this frame that found the overlay up and the host preview
\* still the overlay's own.
LiveUpdates ==
    { i \in Entries("walk_target_update") :
          calls[i].active /\ calls[i].cur_spell = StepSpell }

\* C15 as stated: an update of the active overlay with a non-neutral direction
\* d leaves the aim at origin + d, for each of the eight directions, and an
\* update with the neutral direction leaves the aim where it was.
C15_Original ==
    \A i \in LiveUpdates :
        IF calls[i].arg.direction # <<0, 0>>
        THEN view.cur_spell_target = FromOrigin(calls[i].arg.direction)
        ELSE view.cur_spell_target = calls[i].cur_spell_target

\* C15, amended: an update of the active overlay with a non-neutral direction
\* d leaves the aim at origin + d when that cell is on the map, whatever the
\* aim was before; when origin + d is off the map, or d is neutral, the aim
\* stays where it was.
C15_AimFromOrigin ==
    \A i \in LiveUpdates :
        /\ walk_origin = calls[i].arg.actor
        /\ IF /\ calls[i].arg.direction # <<0, 0>>
              /\ is_point_in_bounds(FromOrigin(calls[i].arg.direction))
           THEN view.cur_spell_target = FromOrigin(calls[i].arg.direction)
           ELSE view.cur_spell_target = calls[i].cur_spell_target

\* C15 happens: an update re-aimed diagonally from an aim that was neither the
\* origin nor the new cell.
C15_Witness ==
    \E i \in LiveUpdates :
        /\ calls[i].arg.direction[1] # 0
        /\ calls[i].arg.direction[2] # 0
        /\ calls[i].cur_spell_target # walk_origin
        /\ calls[i].cur_spell_target # view.cur_spell_target
        /\ view.cur_spell_target = FromOrigin(calls[i].arg.direction)
        /\ active

\* ------------------------------------------------------------------------
\*  ControllerState and the once-per-frame guards: properties
\* ------------------------------------------------------------------------
\* The snapshot of a ControllerState: what its queries read.
Snapshot(self) ==
    [ buttons |-> << self.prev_buttons, self.curr_buttons >>,
      lt |-> << self.prev_lt, self.curr_lt >>,
      rt |-> << self.prev_rt, self.curr_rt >>,
      hat |-> << self.prev_hat, self.curr_hat >>,
      left_dir |-> << self.prev_left_dir, self.curr_left_dir >>,
      right_dir |-> << self.prev_right_dir, self.curr_right_dir >> ]

\* XboxButtons
Buttons == BTN_A .. BTN_R_STICK

\* The answers of the edge queries.
Edges(self) ==
    [ pressed |-> { b \in Buttons : button_just_pressed(self, b) },
      released |-> { b \in Buttons : button_just_released(self, b) },
      lt |-> lt_just_pressed(self),
      rt |-> rt_just_pressed(self) ]

\* C17: a poll with the frame number of the poll before it changes no field
\* of the snapshot (buttons, triggers, d-pad, sticks, current and previous),
\* so the edge queries answer as they did.
C17_PollOncePerFrame ==
    \A i \in Entries("poll") :
        (i > 1 /\ calls[i - 1].arg.frameno = calls[i].arg.frameno)
        => /\ Snapshot(IF i < Len(calls) THEN calls[i + 1].arg.before ELSE ctrl)
                = Snapshot(calls[i].arg.before)
           /\ Edges(IF i < Len(calls) THEN calls[i + 1].arg.before ELSE ctrl)
                = Edges(calls[i].arg.before)

\* C17 happens: the first poll of the frame read a press of A, a second poll
\* of the same frame has run and A still counts as just pressed.
C17_Witness ==
    /\ Len(calls) = 2
    /\ calls[1].op = "poll"
    /\ calls[2].op = "poll"
    /\ calls[1].arg.frameno = calls[2].arg.frameno
    /\ ~button_held(calls[1].arg.before, BTN_A)
    /\ button_just_pressed(calls[2].arg.before, BTN_A)
    /\ button_just_pressed(ctrl, BTN_A)
    /\ ctrl.connected

\* An entry point of the mod, by the name of the host method it wraps.
EntryPoint(name, w, in) ==
    IF name = "key_bind" THEN inject_controller_events(w, in)
    ELSE IF name = "hardcoded" THEN inject_controller_events_hardcoded(w, in)
    ELSE message_input(w, in)

EntryPoints == { "key_bind", "hardcoded", "message" }

\* The frame is marked as one an entry point has run in.
Injected(v) == v.ctrl_injected_frame = v.frameno

\* The entry point that wraps the host's input method of the screen shown.
HostMethod ==
    IF view.state \in KeyBindStates THEN "key_bind"
    ELSE IF view.state \in HardcodedStates THEN "hardcoded"
    ELSE "message"

\* C18: the entry point of the screen shown, when it runs first in a frame
\* (this frame if none has run in it, else the next), leaves the frame marked;
\* and in a marked frame every entry point, on every reading of the pad,
\* leaves the device object, the overlays, the repeaters and the host's event
\* queue as they are and calls nothing.
C18_OncePerFrame ==
    /\ \A in \in OncePads, can \in BOOLEAN :
           Injected(EntryPoint(HostMethod,
                               Frame(IF Injected(view) THEN SlowStep ELSE 0, can),
                               in).view)
    /\ Injected(view)
       => \A name \in EntryPoints, in \in OncePads, can \in BOOLEAN :
              EntryPoint(name, Frame(0, can), in) = Frame(0, can)

\* C18 happens: an entry point has run in this frame on the level screen, and
\* the key-bind entry point, were the frame not marked, would append an event
\* for the pad as it is now.
C18_Witness ==
    /\ Injected(view)
    /\ view.state = "LEVEL"
    /\ ctrl.connected
    /\ calls # <<>>
    /\ inject_controller_events(
           [ Frame(0, TRUE) EXCEPT !.view.ctrl_injected_frame = Older(@) ],
           Press(BTN_A)).view.events # view.events

\* C19 as stated: while the device is not connected, also after a poll found
\* it gone with buttons or directions active, no button is just pressed, held
\* or just released, no trigger is just pressed and the combined direction is
\* neutral.
C19_Original ==
    ~ctrl.connected
    => /\ \A b \in Buttons : /\ ~button_just_pressed(ctrl, b)
                             /\ ~button_held(ctrl, b)
                             /\ ~button_just_released(ctrl, b)
       /\ ~lt_just_pressed(ctrl)
       /\ ~rt_just_pressed(ctrl)
       /\ get_combined_direction(ctrl) = <<0, 0>>

\* What the claims on a frame without a device speak of: the host's event
\* queue, the two overlays with the preview they drive, and the repeaters.
Effects(w) ==
    [ events |-> w.view.events,
      browse |-> << w.browse_mode, w.browse_index >>,
      walk |-> << w.active, w.step_spell >>,
      preview |-> << w.view.cur_spell, w.view.cur_spell_target,
                     w.view.targetable_tiles >>,
      repeaters |-> << w.left_repeater, w.right_repeater, w.browse_repeater >>,
      calls |-> w.calls ]

\* C20 as stated: a frame of the key-bind entry point that has no connected
\* device once its poll step is over, also when that poll found the device
\* gone, appends no event, opens, updates and closes no overlay and updates
\* no repeater.
C20_Original ==
    view.state \in KeyBindStates
    => \A dt \in {0, SlowStep}, in \in PadInputs, can \in BOOLEAN :
           ~inject_controller_events(Frame(dt, can), in).ctrl.connected
           => Effects(inject_controller_events(Frame(dt, can), in))
                = Effects(Frame(dt, can))

\* ------------------------------------------------------------------------
\*  Axis detection: properties
\* ------------------------------------------------------------------------
\* The axes (0-based) of a pad that rest near zero, and near the negative end.
NearZero(rest) == { i \in 0 .. Len(rest) - 1 : Abs(rest[i + 1]) < 50 }
NearMinus(rest) == { i \in 0 .. Len(rest) - 1 : rest[i + 1] < -80 }

\* The k-th member of a set of indices, in index order.
Nth(S, k) == CHOOSE i \in S : Cardinality({ j \in S : j < i }) = k - 1

\* The mapping of the connected device object.
Mapping(self) ==
    [ left |-> << self.axis_left_x, self.axis_left_y >>,
      right |-> << self.axis_right_x, self.axis_right_y >>,
      lt |-> self.axis_lt,
      rt |-> self.axis_rt ]

\* C21: on the pad the device object is connected to, the first two axes in
\* index order that rest near zero are the left stick's X and Y, the next two
\* the right stick's X and Y, and the first and the second axis that rest
\* near the negative end are the left and the right trigger; a pad resting at
\* [0,0,0,0,-1,-1] is mapped to (0,1), (2,3), 4 and 5.
C21_AxisDetection ==
    ctrl.connected
    => LET sticks == NearZero(ctrl.joystick.rest)
           triggers == NearMinus(ctrl.joystick.rest)
       IN  /\ Cardinality(sticks) >= 2
              => Mapping(ctrl).left = << Nth(sticks, 1), Nth(sticks, 2) >>
           /\ Cardinality(sticks) >= 4
              => Mapping(ctrl).right = << Nth(sticks, 3), Nth(sticks, 4) >>
           /\ Cardinality(triggers) >= 1 => Mapping(ctrl).lt = Nth(triggers, 1)
           /\ Cardinality(triggers) >= 2 => Mapping(ctrl).rt = Nth(triggers, 2)
           /\ ctrl.joystick.rest = RestXbox
              => Mapping(ctrl) = [ left |-> <<0, 1>>, right |-> <<2, 3>>,
                                   lt |-> 4, rt |-> 5 ]

\* C21 happens: the device object is connected to a pad whose triggers lie
\* between its sticks, and has polled it.
C21_Witness ==
    /\ ctrl.connected
    /\ ctrl.joystick.rest = RestLinux
    /\ Mapping(ctrl) = [ left |-> <<0, 1>>, right |-> <<3, 4>>, lt |-> 2, rt |-> 5 ]
    /\ calls # <<>>
    /\ ctrl.last_poll_frame = view.frameno

\* What the right stick digitizes to on a reading of the pad.
RightStick(self, in) ==
    read_stick(self, in, self.axis_right_x, self.axis_right_y, self.joystick.numaxes)

\* C22 as stated: whenever the device object is connected to a pad with
\* exactly three axes resting near zero, also after an earlier connection to
\* a pad of another layout, the right stick's Y is unmapped, its X is the
\* third of those axes, and the right stick digitizes to neutral on every
\* reading.
C22_Original ==
    (ctrl.connected /\ Cardinality(NearZero(ctrl.joystick.rest)) = 3)
    => /\ ctrl.axis_right_y = -1
       /\ ctrl.axis_right_x = Nth(NearZero(ctrl.joystick.rest), 3)
       /\ \A in \in ReadingsOf(ctrl.joystick.rest) : RightStick(ctrl, in) = <<0, 0>>

\* C23 as stated: whenever the device object is connected to a pad none of
\* whose axes rests near the negative end, on a first connection or a later
\* one, the polarity flag is cleared, both trigger axes are unmapped, and on
\* every reading a poll finds both triggers unpressed.
C23_Original ==
    (ctrl.connected /\ NearMinus(ctrl.joystick.rest) = {})
    => /\ ~ctrl.trigger_is_minus_one_rest
       /\ ctrl.axis_lt = -1
       /\ ctrl.axis_rt = -1
       /\ \A in \in ReadingsOf(ctrl.joystick.rest) :
              /\ ~read_trigger(ctrl, in, ctrl.axis_lt, ctrl.joystick.numaxes)
              /\ ~read_trigger(ctrl, in, ctrl.axis_rt, ctrl.joystick.numaxes)

\* ------------------------------------------------------------------------
\*  Directions: properties
\* ------------------------------------------------------------------------
\* The 8 compass directions and neutral.
Canonical == {-1, 0, 1} \X {-1, 0, 1}

\* Raw values of a stick axis, on both sides of the dead zone and of the
\* direction threshold.
StickValues == { -100, -20, -10, 0, 10, 20, 100 }

\* A reading with the d-pad at hat and the left stick at (x, y).
Steer(hat, x, y) == Pad({}, hat, << x, y, 0, 0, -100, -100 >>)

\* C24: whatever the d-pad and the left stick report to the connected device
\* object, the combined direction after the read is the d-pad's direction (up
\* being -1) if the d-pad is not neutral, else the direction the left stick
\* digitizes to, and it is one of the 9 canonical values; so it is in the
\* state the device object is in.
C24_CombinedDirection ==
    /\ get_combined_direction(ctrl) \in Canonical
    /\ get_combined_direction(ctrl) =
           IF ctrl.curr_hat # <<0, 0>>
           THEN << ctrl.curr_hat[1], -ctrl.curr_hat[2] >>
           ELSE ctrl.curr_left_dir
    /\ ctrl.connected
       => \A hat \in Canonical, x \in StickValues, y \in StickValues :
              LET d == get_combined_direction(poll_read(ctrl, Steer(hat, x, y)))
              IN  /\ d \in Canonical
                  /\ hat # <<0, 0>> => d = << hat[1], -hat[2] >>
                  /\ hat = <<0, 0>>
                     => d = read_stick(ctrl, Steer(hat, x, y), ctrl.axis_left_x,
                                      ctrl.axis_left_y, ctrl.joystick.numaxes)

\* C24 happens: a poll has read the d-pad pushed left and the left stick
\* pushed down, and the combined direction is left.
C24_Witness ==
    /\ calls # <<>>
    /\ ctrl.last_poll_frame = view.frameno
    /\ ctrl.curr_hat = <<-1, 0>>
    /\ ctrl.curr_left_dir = <<0, 1>>
    /\ ctrl.prev_hat = <<0, 0>>
    /\ get_combined_direction(ctrl) = <<-1, 0>>

\* ------------------------------------------------------------------------
\*  Modal precedence: properties
\* ------------------------------------------------------------------------
\* Readings of the pad tried on every state: buttons alone and together, the
\* d-pad, the sticks and the triggers.
TryPads ==
    PadInputs \cup CancelPads \cup WalkPads \cup BrowsePads
    \cup { Press(BTN_X), Pulled, DpadLeftStickDown,
           Pad({BTN_A}, <<0, 0>>, << 0, 0, 100, 100, 100, -100 >>) }

Repeaters(w) == << w.left_repeater, w.right_repeater, w.browse_repeater >>
Session(w) == << w.browse_mode, w.browse_index >>

\* The operations the walk-target overlay runs, with the host calls they make.
WalkOps ==
    { "walk_target_update", "walk_target_exit", "try_move", "play_sound",
      "try_examine_tile" }

\* The world after the poll and the consistency pass of a key-bind frame that
\* starts now on the reading `in`; go tells that the frame got that far.
AfterConsistency(in, can) ==
    LET p == Prologue(Frame(FrameStep, can), in)
    IN  [ go |-> p.go, w |-> IF p.go THEN ConsistencyPass(p.w) ELSE p.w ]

\* C25: a key-bind frame that finds the walk-target overlay active after its
\* consistency pass appends no event to the host's queue, leaves the browse
\* session as the pass left it, runs nothing but the overlay's operations and
\* updates no repeater, whatever the pad reports.  (The pass does not enter
\* the overlay.)
C25_WalkExclusive ==
    (view.state \in KeyBindStates /\ active)
    => \A in \in TryPads, can \in BOOLEAN :
           (AfterConsistency(in, can).go /\ AfterConsistency(in, can).w.active)
           => LET r == inject_controller_events(Frame(FrameStep, can), in)
              IN  /\ r.view.events = <<>>
                  /\ Session(r) = Session(AfterConsistency(in, can).w)
                  /\ Repeaters(r) = Repeaters(Frame(FrameStep, can))
                  /\ \A i \in DOMAIN r.calls : r.calls[i].op \in WalkOps

\* C25 happens: in a frame with the overlay up and the d-pad pushed, the
\* overlay was updated, no event was queued and the movement repeater, at
\* rest, did not start.
C25_Witness ==
    /\ Entries("walk_target_update") # {}
    /\ active
    /\ get_combined_direction(ctrl) # <<0, 0>>
    /\ view.cur_spell_target # walk_origin
    /\ view.events = <<>>
    /\ left_repeater.active_dir = None
    /\ browse_mode = "none"

\* The operations a browse session runs, with the host calls they make.
BrowseOps ==
    { "browse_confirm", "browse_cycle", "choose_spell", "abort_cur_spell",
      "try_examine_tile" }

\* C26: a key-bind frame that finds a browse session open after its
\* consistency pass, the walk-target overlay being inactive, does not enter
\* the overlay, leaves the movement repeater alone, runs nothing but the
\* session's operations, and queues nothing but the one confirm event of
\* browse_confirm, whatever the pad reports.  (The pass opens no session.)
C26_BrowseExclusive ==
    (view.state \in KeyBindStates /\ is_browsing(World))
    => \A in \in TryPads, can \in BOOLEAN :
           ( /\ AfterConsistency(in, can).go
             /\ ~AfterConsistency(in, can).w.active
             /\ is_browsing(AfterConsistency(in, can).w) )
           => LET r == inject_controller_events(Frame(FrameStep, can), in)
                  confirms == { i \in DOMAIN r.calls : r.calls[i].op = "browse_confirm" }
              IN  /\ ~r.active
                  /\ r.step_spell = step_spell
                  /\ r.left_repeater = Frame(FrameStep, can).left_repeater
                  /\ \A i \in DOMAIN r.calls : r.calls[i].op \in BrowseOps
                  /\ r.view.events =
                         IF confirms # {} THEN KeyEvent(r, "CONFIRM") ELSE <<>>
                  /\ Cardinality(confirms) <= 1

\* C26 happens: with a session open and the d-pad pushed down, the session
\* moved to its next entry; no event was queued, the movement repeater, at
\* rest, did not start, and the overlay was not entered.
C26_Witness ==
    /\ Entries("browse_cycle") # {}
    /\ get_combined_direction(ctrl) = <<0, 1>>
    /\ browse_mode # "none"
    /\ browse_index = 1
    /\ view.events = <<>>
    /\ left_repeater.active_dir = None
    /\ ~active

\* ------------------------------------------------------------------------
\*  Normal mode: properties
\* ------------------------------------------------------------------------
\* The A branch of lines 168-178 that enters the overlay and returns.
EntersOverlay(w) ==
    /\ button_just_pressed(w.ctrl, BTN_A)
    /\ InLevel(w) /\ ~HasSpell(w) /\ ~HasDeploy(w)
    /\ w.can_execute_inputs

\* The RB and LB branches of lines 216-218 and 227-230 that open a session.
OpensBrowser(w, button) ==
    /\ button_just_pressed(w.ctrl, button)
    /\ InLevel(w) /\ ~HasSpell(w) /\ ~HasDeploy(w)

\* The contents of `injected` when a normal-mode frame ends, by `return` or at
\* line 306: the events the frame generated, in the order of generation.
Generated(w) ==
    IF EntersOverlay(w) THEN <<>>
    ELSE IF OpensBrowser(w, BTN_RB) THEN FaceButtons(w)
    ELSE IF OpensBrowser(w, BTN_LB) THEN FaceButtons(w) \o RBEvents(w)
    ELSE LET l == update(w.left_repeater, get_combined_direction(w.ctrl), Clock)
         IN  FaceButtons(w) \o RBEvents(w) \o LBEvents(w)
             \o ClickAndTriggerEvents(w)
             \o (IF l.events = <<>> THEN <<>>
                 ELSE KeyEvent(w, direction_to_key_bind(l.events[1])))

\* A frame in normal mode: it passed the prologue and, after the consistency
\* pass, neither the overlay nor a browse session is open.
NormalFrame(in, can) ==
    /\ AfterConsistency(in, can).go
    /\ ~AfterConsistency(in, can).w.active
    /\ ~is_browsing(AfterConsistency(in, can).w)

\* C27 as stated: every event a normal-mode frame generates joins the host's
\* queue in that frame, in the order of generation; none is dropped.
C27_Original ==
    view.state \in KeyBindStates
    => \A in \in TryPads, can \in BOOLEAN :
           NormalFrame(in, can)
           => inject_controller_events(Frame(FrameStep, can), in).view.events
              = Frame(FrameStep, can).view.events
                \o Generated(AfterConsistency(in, can).w)

\* The same for the frames that open no browse session.
C27_NoSessionOpened ==
    view.state \in KeyBindStates
    => \A in \in TryPads, can \in BOOLEAN :
           ( /\ NormalFrame(in, can)
             /\ ~OpensBrowser(AfterConsistency(in, can).w, BTN_RB)
             /\ ~OpensBrowser(AfterConsistency(in, can).w, BTN_LB) )
           => inject_controller_events(Frame(FrameStep, can), in).view.events
              = Frame(FrameStep, can).view.events
                \o Generated(AfterConsistency(in, can).w)

\* The readings tried for the button table: every button alone, the triggers,
\* two buttons bound to the same action together, and A with a shoulder button.
TablePads ==
    { Press(b) : b \in Buttons }
    \cup { Idle, Pulled, Pad({BTN_B, BTN_START}, <<0, 0>>, RestXbox),
           Pad({BTN_A, BTN_RB}, <<0, 0>>, RestXbox) }

\* A button without an action: no key is bound to it.
NoAction == "NO_ACTION"

\* The bind a press edge of button b stands for in a normal-mode frame of w
\* (lines 168-250), NoAction when the button has no action there.
ActionOf(w, b) ==
    CASE b = BTN_A -> "CONFIRM"
      [] b = BTN_B -> "ABORT"
      [] b = BTN_X -> "PASS"
      [] b = BTN_Y -> "CHAR"
      [] b = BTN_START -> "ABORT"
      [] b = BTN_BACK -> "HELP"
      [] b = BTN_R_STICK -> "THREAT"
      [] b = BTN_L_STICK -> IF InLevel(w) THEN "AUTOPICKUP" ELSE NoAction
      [] b = BTN_RB -> IF ~InLevel(w) THEN "NEXT_EXAMINE_TARGET"
                       ELSE IF HasSpell(w) THEN "TAB" ELSE NoAction
      [] b = BTN_LB -> "PREV_EXAMINE_TARGET"

\* The events a frame added to the queue `before`.
Appended(before, after) ==
    { after[i] : i \in (Len(before) + 1) .. Len(after) }

\* The frame of w queued the key of `bind`, if `bind` has a key.
Queued(w, bind, before, after) ==
    \/ KeyEvent(w, bind) = <<>>
    \/ KeyEvent(w, bind)[1] \in Appended(before, after)

CallTimes == { Clock, Clock + SlowStep, Clock + RESCAN_INTERVAL }

\* The time from a first call to a second: on both sides of the interval.
Gaps ==
    { 0, 1, SlowStep, RESCAN_INTERVAL - 1, RESCAN_INTERVAL,
      RESCAN_INTERVAL + 1, RESCAN_INTERVAL + SlowStep }

\* A call of try_init that took `before` to `after` with a device plugged in
\* enumerated the devices: it found the device.
Enumerated(before, after) == ~before.connected /\ after.connected

\* C29: while disconnected, a call of try_init less than the rescan interval
\* after a call that enumerated the devices (whether it found one that has
\* been lost since, or none) enumerates nothing: it leaves the object as it
\* is, not connected, although a device is plugged in.  Two enumerations are
\* therefore at least the interval apart.
C29_RescanThrottle ==
    ~ctrl.connected
    => \A t \in CallTimes, gap \in Gaps, count \in { 0, 1 } :
           LET first == try_init(ctrl, t, count, RestXbox)
               lost == IF first.connected THEN handle_disconnect(first)
                       ELSE first
               second == try_init(lost, t + gap, 1, RestXbox)
           IN  /\ (first # ctrl /\ gap < RESCAN_INTERVAL)
                  => (second = lost /\ ~second.connected)
               /\ (Enumerated(ctrl, first) /\ Enumerated(lost, second))
                  => gap >= RESCAN_INTERVAL
               /\ first = ctrl
                  => /\ ~first.connected
                     /\ t - ctrl.last_scan_time < RESCAN_INTERVAL

\* C29 happens: the devices were enumerated in this frame and none was found;
\* a call just short of the interval later does nothing, one at the interval
\* finds the pad that was plugged in meanwhile.
C29_Witness ==
    /\ ~ctrl.connected
    /\ ctrl.last_scan_time = Clock
    /\ try_init(ctrl, Clock + RESCAN_INTERVAL - 1, 1, RestXbox) = ctrl
    /\ try_init(ctrl, Clock + RESCAN_INTERVAL, 1, RestXbox).connected

\* ------------------------------------------------------------------------
\*  Repeater, first press: properties
\* ------------------------------------------------------------------------
\* The latest update met an Idle repeater with a non-neutral direction.
IdlePress == repPre.held = None /\ ~IsNeutral(repIn)

\* The latest update emitted its direction, holds it, scheduled the next fire
\* initial_delay from now and recorded now as the fire time.
PressFired ==
    /\ repOut = << repIn >>
    /\ rep.active_dir = repIn
    /\ rep.next_fire_time = Clock + rep.initial_delay
    /\ rep.last_fire_time = Clock

\* C30 as stated: an Idle repeater given a non-neutral direction D emits D,
\* holds D, schedules the next fire at now + initial_delay and records now.
C30_Original == IdlePress => PressFired

\* C30, amended: it does so when at least DEBOUNCE_TIME has passed since the
\* latest emission and since the latest release.  Within DEBOUNCE_TIME of the
\* latest emission the update emits nothing and the repeater stays Idle;
\* otherwise, within DEBOUNCE_TIME of the latest release, it emits nothing,
\* holds D and schedules the next fire at now + initial_delay without
\* recording a fire time.
C30_IdlePress ==
    IdlePress
    => IF repPre.tooSoon
       THEN repOut = <<>> /\ rep.active_dir = None
       ELSE IF repPre.bounce
       THEN /\ repOut = <<>>
            /\ rep.active_dir = repIn
            /\ rep.next_fire_time = Clock + rep.initial_delay
            /\ rep.last_fire_time < Clock
       ELSE PressFired

\* C30 happens: an Idle repeater, clear of both debounce windows, fired on a
\* first press.
C30_Witness ==
    /\ IdlePress
    /\ ~repPre.tooSoon
    /\ ~repPre.bounce
    /\ PressFired

\* ------------------------------------------------------------------------
\*  Consistency pass: properties
\* ------------------------------------------------------------------------
\* C31: in every key-bind frame that polled the pad, right after the
\* consistency pass an open browse session implies that the host shows the
\* level and has a previewed spell; a session that was open when the host had
\* left the level or lost its preview is closed by the pass, which calls no
\* host method and leaves the host's view as it was.
C31_ConsistencyPass ==
    (view.state \in KeyBindStates /\ is_browsing(World))
    => \A in \in OncePads, can \in BOOLEAN :
           LET p == Prologue(Frame(FrameStep, can), in)
               c == AfterConsistency(in, can).w
           IN  p.go
               => /\ is_browsing(c)
                     => (c.view.state = "LEVEL" /\ c.view.cur_spell # None)
                  /\ is_browsing(c)
                     <=> (view.state = "LEVEL" /\ view.cur_spell # None)
                  /\ c.view = p.w.view
                  /\ c.calls = p.w.calls
                  /\ c.p1 = p.w.p1

\* C31 happens: a frame on the title screen found a session open and closed
\* it; the preview the session had made is still the host's, no host method
\* was called and nothing was queued.
C31_Witness ==
    /\ view.state = "TITLE"
    /\ view.ctrl_injected_frame = view.frameno
    /\ ctrl.last_poll_frame = view.frameno
    /\ browse_mode = "none"
    /\ ~active
    /\ view.cur_spell \in HostSpells
    /\ calls = <<>>
    /\ view.events = <<>>

\* ------------------------------------------------------------------------
\*  Stick digitization: properties
\* ------------------------------------------------------------------------
\* The integer part of the square root of n.
ISqrt(n) == CHOOSE r \in 0 .. 150 : r * r <= n /\ n < (r + 1) * (r + 1)

\* The Euclidean magnitude of (x, y) is below the radial dead zone.
InDeadzone(x, y) == ISqrt(x * x + y * y) < STICK_DEADZONE

\* One axis on its own: +1 above the threshold, -1 below its negative.
AxisSign(v) ==
    IF v > DIRECTION_THRESHOLD THEN 1
    ELSE IF v < -DIRECTION_THRESHOLD THEN -1 ELSE 0

\* The stick readings of the latest poll.
StickReadings == { calls[i].arg : i \in Entries("stick_to_digital") }

\* C32: a stick read at (x, y) digitizes to neutral when the magnitude of
\* (x, y) is below the radial dead zone, and otherwise to the pair of the
\* signs of its axes, each taken on its own against the direction threshold;
\* (0.5, 0.18) digitizes to (1, 1).
C32_StickToDigital ==
    \A r \in StickReadings :
        /\ ctrl.curr_left_dir =
               IF InDeadzone(r.x, r.y) THEN <<0, 0>>
               ELSE << AxisSign(r.x), AxisSign(r.y) >>
        /\ ctrl.curr_right_dir =
               IF InDeadzone(r.y, r.x) THEN <<0, 0>>
               ELSE << AxisSign(r.y), AxisSign(r.x) >>
        /\ (r.x = 50 /\ r.y = 18) => ctrl.curr_left_dir = <<1, 1>>

\* C32 happens: the left stick was read at (0.5, 0.18) and reports (1, 1).
C32_Witness ==
    /\ [ x |-> 50, y |-> 18 ] \in StickReadings
    /\ ctrl.curr_left_dir = <<1, 1>>
    /\ ctrl.last_poll_frame = view.frameno

\* C40: a stick read at (x, y) digitizes to neutral exactly when the magnitude
\* of (x, y) is below the radial dead zone.
C40_NeutralIffDeadzone ==
    \A r \in StickReadings :
        /\ ctrl.curr_left_dir = <<0, 0>> <=> InDeadzone(r.x, r.y)
        /\ ctrl.curr_right_dir = <<0, 0>> <=> InDeadzone(r.y, r.x)

\* C40 happens: a reading on the dead zone's circle whose x axis is not above
\* the direction threshold, (0.15, 0.2), is not neutral.
C40_Witness ==
    /\ [ x |-> DIRECTION_THRESHOLD, y |-> 20 ] \in StickReadings
    /\ ~InDeadzone(DIRECTION_THRESHOLD, 20)
    /\ ctrl.curr_left_dir = <<0, 1>>
    /\ ctrl.last_poll_frame = view.frameno

\* ------------------------------------------------------------------------
\*  Reticles: properties
\* ------------------------------------------------------------------------
\* The readings tried on the reticles: each stick and the d-pad in every
\* direction, with and without the aim-hold button.
SteerPads ==
    { RightPush(d) : d \in Canonical } \cup { AimAt(d) : d \in Canonical }
    \cup { Press(BTN_A), Press(BTN_B), Press(BTN_RB), DpadUp, DpadDown }

\* p moved by d.
Moved(p, d) == Point(p[1] + d[1], p[2] + d[2])

\* The cells of the map, stated on their own.
OnMap(p) == p[1] >= 0 /\ p[1] <= 2 /\ p[2] >= 0 /\ p[2] <= 1

\* A frame wrote the reticle `new` over `old`, steered by d from `from`: the
\* reticle is as it was, or it is `from` moved by d and lies on the map.
Steered(old, new, from, d) ==
    \/ new = old
    \/ new = Moved(from, d) /\ OnMap(new)

\* C33: whatever the pad reports, a key-bind frame leaves the spell target, the
\* deployment target and the overlay's aim where they were, or moves them by
\* the direction of the frame onto a cell of the map: the spell and deployment
\* targets by the right stick's direction from where they were, the overlay's
\* aim by the combined direction from the player (and onto the player when
\* the overlay is entered).  A frame in which the host previews another entry
\* of a browse session has the host put the target on the player.
C33_ReticleInBounds ==
    (view.state = "LEVEL" /\ view.game)
    => \A in \in SteerPads :
           LET f == Frame(SlowStep, TRUE)
               r == inject_controller_events(f, in)
               old == view.cur_spell_target
               new == r.view.cur_spell_target
           IN  /\ r.view.deploy_target # None
                  => /\ view.deploy_target # None
                     /\ Steered(view.deploy_target, r.view.deploy_target,
                                view.deploy_target, r.ctrl.curr_right_dir)
                     /\ OnMap(view.deploy_target) => OnMap(r.view.deploy_target)
               /\ (new # None /\ r.active /\ ~active)
                  => (new = Point(p1.x, p1.y) /\ OnMap(new))
               /\ (new # None /\ r.active /\ active)
                  => Steered(old, new, Point(p1.x, p1.y),
                             get_combined_direction(r.ctrl))
               /\ (new # None /\ ~r.active /\ old # None /\ ~active
                   /\ \A i \in DOMAIN r.calls : r.calls[i].op # "choose_spell")
                  => Steered(old, new, old, r.ctrl.curr_right_dir)
               /\ (new # None /\ old # None /\ OnMap(old)) => OnMap(new)

\* C33 happens: with a spell previewed, the cursor repeater emitted a
\* direction that leads off the map; the target is where it was and no tile was
\* examined.
C33_Witness ==
    /\ view.cur_spell \in HostSpells
    /\ view.cur_spell_target # None
    /\ ctrl.curr_right_dir = <<1, 1>>
    /\ right_repeater.active_dir = <<1, 1>>
    /\ right_repeater.last_fire_time = Clock
    /\ ~OnMap(Moved(view.cur_spell_target, <<1, 1>>))
    /\ OnMap(view.cur_spell_target)
    /\ Entries("try_examine_tile") = {}
    /\ ~active

\* ------------------------------------------------------------------------
\*  Reconnection: properties
\* ------------------------------------------------------------------------
\* The time from one frame to the next: a frame, a slow frame, and waits on
\* both sides of the rescan interval.
Waits == { FrameStep, SlowStep, RESCAN_INTERVAL - 1, RESCAN_INTERVAL }

\* The readings of a pad that is plugged in and answers.
AvailablePads == { in \in OncePads : in.count > 0 /\ ~in.err }

\* C34: with a pad plugged in, a frame of any entry point that runs while the
\* controller is disconnected, a rescan interval or more after the latest
\* scan, ends with the controller connected to the pad.
C34_Reconnects ==
    ~ctrl.connected
    => \A dt \in Waits, in \in AvailablePads, name \in EntryPoints :
           LET f == Frame(dt, TRUE)
               r == EntryPoint(name, f, in)
           IN  Clock - f.ctrl.last_scan_time >= RESCAN_INTERVAL
               => /\ r.ctrl.connected
                  /\ r.ctrl.joystick # None
                  /\ r.ctrl.last_scan_time = Clock

\* C34 happens: the controller is disconnected and a scan found nothing one
\* slow frame ago; with a pad plugged in, a frame now is throttled and the
\* frame a slow frame later connects.
C34_Witness ==
    /\ ~ctrl.connected
    /\ view.state \in KeyBindStates
    /\ ctrl.last_scan_time = Clock - SlowStep
    /\ ~inject_controller_events(Frame(FrameStep, TRUE), Idle).ctrl.connected
    /\ inject_controller_events(Frame(SlowStep, TRUE), Idle).ctrl.connected

\* ------------------------------------------------------------------------
\*  Walk-target aim: properties
\* ------------------------------------------------------------------------
\* The overlay is up and its spell is the host's preview.
SessionLive == active /\ step_spell # None /\ view.cur_spell = step_spell

\* C35: while the overlay is up with its spell previewed, the aim is the
\* origin captured at entry or one of the eight cells around it, whatever
\* updates came before; and every offset a commit hands to the host's move is
\* a single step.
C35_AimNearOrigin ==
    /\ SessionLive
       => /\ walk_origin # None
          /\ view.cur_spell_target # None
          /\ << view.cur_spell_target[1] - walk_origin[1],
                view.cur_spell_target[2] - walk_origin[2] >> \in Canonical
    /\ \A i \in Entries("try_move") :
           /\ calls[i].arg \in Canonical
           /\ calls[i].arg # <<0, 0>>

\* C35 happens: from the middle of the upper row, an update re-aimed the
\* overlay from one neighbour of the origin to another.
C35_Witness ==
    /\ SessionLive
    /\ walk_origin = <<1, 0>>
    /\ view.cur_spell_target # walk_origin
    /\ \E i \in Entries("walk_target_update") :
           /\ calls[i].cur_spell_target # None
           /\ calls[i].cur_spell_target # walk_origin
           /\ calls[i].cur_spell_target # view.cur_spell_target

\* ------------------------------------------------------------------------
\*  Held buttons: properties
\* ------------------------------------------------------------------------
\* The buttons of the table whose action does not depend on the screen.
HeldButtons == { BTN_B, BTN_X, BTN_Y, BTN_START, BTN_BACK }

\* The frame that follows a frame in which the connected pad was read with b
\* down queues the key of b's action although b is still down, or the pad has
\* gone: `in` is what the pad reports in that frame.
RepeatsPress(b, in, can) ==
    LET r == inject_controller_events(Frame(FrameStep, can), in)
    IN  /\ KeyEvent(World, ActionOf(World, b)) # <<>>
        /\ KeyEvent(World, ActionOf(World, b))[1] \in Appended(<<>>, r.view.events)

\* Normal mode with the pad connected and read.
NormalAndRead ==
    /\ view.state \in KeyBindStates
    /\ ~active
    /\ ~is_browsing(World)
    /\ ctrl.connected
    /\ ctrl.last_poll_frame = view.frameno

\* C36 as stated: a table button that was down when the pad was last read
\* produces no event in the next normal-mode frame, whether the pad still
\* reports it down, has been pulled out or fails to answer: one press yields
\* at most one event.
C36_Original ==
    NormalAndRead
    => \A b \in HeldButtons \cap ctrl.curr_buttons, can \in BOOLEAN :
           \A in \in { Press(b), Gone, Failing } : ~RepeatsPress(b, in, can)

\* The same for the frames in which the pad still answers.
C36_WhileConnected ==
    NormalAndRead
    => \A b \in HeldButtons \cap ctrl.curr_buttons, can \in BOOLEAN :
           \A in \in { Press(b), Pad({b, BTN_A}, <<0, 0>>, RestXbox), Failing } :
               ~RepeatsPress(b, in, can)

\* ------------------------------------------------------------------------
\*  Overlay and host preview: properties
\* ------------------------------------------------------------------------
\* C37: while the overlay is inactive the host previews no StepSpell, whichever
\* way the overlay ended (commit, cancel, the host leaving the level, the host
\* replacing the preview); and no frame installs the overlay while the host
\* has a previewed spell or a deployment target.
C37_PreviewFreeOfStepSpell ==
    /\ ~active => view.cur_spell # StepSpell
    /\ ( /\ ~active
         /\ view.state \in KeyBindStates
         /\ view.cur_spell # None \/ view.deploy_target # None )
       => \A in \in { Press(BTN_A), AimRight } :
              ~inject_controller_events(Frame(FrameStep, TRUE), in).active

\* C37 happens: the host replaced the overlay's preview by a spell of its own
\* and the next update dropped the overlay; the host's spell is still
\* previewed.
C37_Witness ==
    /\ ~active
    /\ step_spell = None
    /\ view.cur_spell \in HostSpells
    /\ \E i \in Entries("walk_target_update") : calls[i].active

\* ------------------------------------------------------------------------
\*  Overlay and aim-hold button: properties
\* ------------------------------------------------------------------------
\* C38: whatever the pad reports, a key-bind frame that polled it ends with
\* the overlay inactive or with A down in the snapshot; a frame that activates
\* the overlay has a press edge on A; and a frame that reads A up ends with
\* the overlay inactive, also when A went up while another pipeline polled.
C38_OverlayNeedsHold ==
    view.state \in KeyBindStates
    => \A in \in TryPads, can \in BOOLEAN :
           AfterConsistency(in, can).go
           => LET r == inject_controller_events(Frame(FrameStep, can), in)
              IN  /\ r.active => button_held(r.ctrl, BTN_A)
                  /\ (r.active /\ ~active) => button_just_pressed(r.ctrl, BTN_A)
                  /\ (r.ctrl.connected /\ BTN_A \notin in.buttons) => ~r.active

\* C38 happens: A went up while the hardcoded pipeline polled the pad with the
\* overlay still up; the first key-bind frame after that closed the overlay.
C38_Witness ==
    /\ ~active
    /\ view.state \in KeyBindStates
    /\ ctrl.connected
    /\ ~button_held(ctrl, BTN_A)
    /\ BTN_A \notin ctrl.prev_buttons
    /\ \E i \in Entries("walk_target_exit") : calls[i].active

\* ------------------------------------------------------------------------
\*  Repeater: liveness
\* ------------------------------------------------------------------------
\* The directions fed to the repeater.
HeldDirections == { d \in RepInputs : ~IsNeutral(d) }

\* C39: if from some update on the repeater is fed one non-neutral direction
\* D on every update, while time advances, it emits D again and again; no
\* state the repeater can be in, after a suppressed bounce or a swallowed
\* direction change, holds D back for ever.
C39_HeldDirectionFires ==
    \A D \in HeldDirections : (<>[](repIn = D)) => ([]<>(repOut = << D >>))

\* C39 happens: D took over silently within the debounce time of a release,
\* and the update that emitted D for the first time found it held already.
C39_Witness ==
    /\ repOut = << repIn >>
    /\ repPre.held = repIn
    /\ repRun.n = 1
    /\ ~repRun.fresh

====
